---- MODULE Spec2Model ----
(***************************************************************************)
(* A model of the change-tracking core of morecup/crystal:                 *)
(*   - GitFileWatcher (src/main/src/services/gitFileWatcher.ts): the       *)
(*     working-tree watcher with debounce and exponential backoff;         *)
(*   - GitDiffManager (src/main/src/services/gitDiffManager.ts): the diff  *)
(*     capture and aggregation engine;                                     *)
(*   - the parsers of unified diff text: parseUnifiedDiff of the           *)
(*     DiffViewer (src/unnamed/part_005) and parseFilesFromDiff of the     *)
(*     diffParser utility (src/unnamed/part_010).                          *)
(*                                                                         *)
(* Text is modelled as a sequence of one-character strings. Time is        *)
(* modelled in milliseconds, advancing in steps of TickMs; a timeout holds *)
(* the milliseconds that remain until it is due.                           *)
(***************************************************************************)
EXTENDS Integers, Sequences, FiniteSets, TLC

(***************************************************************************)
(* Generic helpers: JavaScript Map and String primitives.                  *)
(***************************************************************************)
MapSet(m, k, v) == [x \in (DOMAIN m) \cup {k} |-> IF x = k THEN v ELSE m[x]]

MapDelete(m, k) == [x \in (DOMAIN m) \ {k} |-> m[x]]

EmptyMap == << >>

Min(a, b) == IF a <= b THEN a ELSE b

startsWith(s, p) ==
    /\ Len(p) <= Len(s)
    /\ SubSeq(s, 1, Len(p)) = p

endsWith(s, p) ==
    /\ Len(p) <= Len(s)
    /\ SubSeq(s, Len(s) - Len(p) + 1, Len(s)) = p

includes(s, p) ==
    \E i \in 1..(Len(s) - Len(p) + 1) : SubSeq(s, i, i + Len(p) - 1) = p

\* filename.split('/').pop() || '' : the text after the last '/'.
lastSegment(s) ==
    LET slashes == {i \in 1..Len(s) : s[i] = "/"}
        last == IF slashes = {} THEN 0
                ELSE CHOOSE i \in slashes : \A j \in slashes : j <= i
    IN  SubSeq(s, last + 1, Len(s))

(***************************************************************************)
(* More String and Array primitives, used by the GitDiffManager.           *)
(***************************************************************************)
Whitespace == {" ", "\n", "\r", "\t"}

Digits == <<"0", "1", "2", "3", "4", "5", "6", "7", "8", "9">>

isDigit(c) == \E d \in 1..10 : Digits[d] = c

\* String.prototype.trim
trim(s) ==
    LET keep == {i \in 1..Len(s) : s[i] \notin Whitespace}
    IN  IF keep = {} THEN << >>
        ELSE SubSeq(s, CHOOSE i \in keep : \A j \in keep : i <= j,
                       CHOOSE i \in keep : \A j \in keep : j <= i)

\* String.prototype.split with a one-character separator: the pieces
\* between the separators, the empty ones included.
RECURSIVE split(_, _)
split(s, sep) ==
    LET at == {i \in 1..Len(s) : s[i] = sep}
    IN  IF at = {} THEN <<s>>
        ELSE LET first == CHOOSE i \in at : \A j \in at : i <= j
             IN  <<SubSeq(s, 1, first - 1)>>
                 \o split(SubSeq(s, first + 1, Len(s)), sep)

\* String.prototype.split(/\r?\n/): a separator is a line feed together
\* with the carriage return before it, if there is one.
RECURSIVE splitLines(_)
splitLines(s) ==
    LET at == {i \in 1..Len(s) : s[i] = "\n"}
    IN  IF at = {} THEN <<s>>
        ELSE LET first == CHOOSE i \in at : \A j \in at : i <= j
                 stop == IF first > 1 /\ s[first - 1] = "\r"
                         THEN first - 2 ELSE first - 1
             IN  <<SubSeq(s, 1, stop)>>
                 \o splitLines(SubSeq(s, first + 1, Len(s)))

\* Array.prototype.join
RECURSIVE join(_, _)
join(parts, sep) ==
    IF Len(parts) = 0 THEN << >>
    ELSE IF Len(parts) = 1 THEN parts[1]
    ELSE parts[1] \o sep \o join(Tail(parts), sep)

\* Array.prototype.filter(f => f.trim().length > 0)
RECURSIVE filterNonBlank(_)
filterNonBlank(parts) ==
    IF Len(parts) = 0 THEN << >>
    ELSE IF Len(trim(parts[1])) > 0
    THEN <<parts[1]>> \o filterNonBlank(Tail(parts))
    ELSE filterNonBlank(Tail(parts))

\* parseInt of a run of decimal digits.
RECURSIVE parseInt(_)
parseInt(ds) ==
    IF Len(ds) = 0 THEN 0
    ELSE 10 * parseInt(SubSeq(ds, 1, Len(ds) - 1))
         + ((CHOOSE d \in 1..10 : Digits[d] = ds[Len(ds)]) - 1)

\* The decimal digits of a number, as the external tool prints it.
RECURSIVE decimal(_)
decimal(n) ==
    IF n < 10 THEN <<Digits[n + 1]>>
    ELSE decimal(n \div 10) \o <<Digits[(n % 10) + 1]>>

(***************************************************************************)
(* GitFileWatcher: constants.                                              *)
(***************************************************************************)
DEBOUNCE_MS == 1500

BASE_BACKOFF_MS == 1000

MAX_BACKOFF_MS == 30000

IGNORE_PATTERNS ==
    << <<".", "g", "i", "t", "/">>,
       <<"n", "o", "d", "e", "_", "m", "o", "d", "u", "l", "e", "s", "/">>,
       <<".", "D", "S", "_", "S", "t", "o", "r", "e">>,
       <<"t", "h", "u", "m", "b", "s", ".", "d", "b">>,
       <<"*", ".", "s", "w", "p">>,
       <<"*", ".", "s", "w", "o">>,
       <<"*", "~">>,
       <<".", "#", "*">>,
       <<"#", "*", "#">> >>

(***************************************************************************)
(* Bounds of the model.                                                    *)
(***************************************************************************)
\* Inconclusive checks are generated while the failure counts of all
\* sessions together are below this.
MaxStreak == 7

\* Events of one burst and checks within the debounce window of one event
\* are counted up to these.
MaxBurst == 2

MaxChecks == 2

Sessions == {"s1", "s2"}

Paths == {"/repo"}

\* One step of the clock: a third of the debounce delay (500 ms).
TickMs == DEBOUNCE_MS \div 3

\* The elapsed time since lastModified is tracked until it exceeds the
\* debounce delay.
AgeCap == DEBOUNCE_MS + TickMs

\* Diffs handed to one call of combineDiffs, untracked files of a working
\* tree and lines of the longest untracked file.
MaxDiffs == 3

MaxUntracked == 2

MaxLines == 5

\* Branch-unique commits of a repository.
MaxCommits == 2

\* Event paths delivered by fs.watch (relative to the watched root).
FileNames ==
    { <<"a", ".", "t", "s">>,
      <<".", "g", "i", "t">>,
      <<".", "g", "i", "t", "/", "x">>,
      <<"d", "/", ".", "g", "i", "t", "/", "x">>,
      <<"n", "o", "d", "e", "_", "m", "o", "d", "u", "l", "e", "s", "/", "x">>,
      <<".", "D", "S", "_", "S", "t", "o", "r", "e">>,
      <<"d", "/", "t", "h", "u", "m", "b", "s", ".", "d", "b">>,
      <<"a", ".", "s", "w", "p">>,
      <<"d", "/", "a", ".", "s", "w", "o">>,
      <<"a", "~">>,
      <<"d", "/", ".", "#", "a">>,
      <<"#", "a", "#">>,
      <<"a", "#">> }

(***************************************************************************)
(* Outcomes of the gateway calls of one check (execSync and existsSync),   *)
(* in the order of the calls. A call that is not issued has the outcome    *)
(* "-". "fail" is a failure of a command other than its boolean exit code. *)
(***************************************************************************)
Gw(a, b, c, d, e, f, g) ==
    [ insideWorkTree |-> a, gitDir |-> b, lockExists |-> c,
      updateIndex |-> d, diffFiles |-> e, diffIndex |-> f, lsFiles |-> g ]

GatewayOutcomes ==
    { Gw(a, "-", "-", "-", "-", "-", "-") : a \in {"other", "throw"} }
    \cup { Gw("true", "throw", "-", "-", "-", "-", "-"),
           Gw("true", "ok", "yes", "-", "-", "-", "-"),
           Gw("true", "ok", "no", "throw", "-", "-", "-") }
    \cup { Gw("true", "ok", "no", "ok", e, "-", "-") : e \in {"exit1", "fail"} }
    \cup { Gw("true", "ok", "no", "ok", "exit0", f, "-") :
              f \in {"exit1", "fail"} }
    \cup { Gw("true", "ok", "no", "ok", "exit0", "exit0", g) :
              g \in {"empty", "nonempty", "throw"} }

(***************************************************************************)
(* GitFileWatcher: the state of one instance, as a record                  *)
(*   watchedSessions, refreshDebounceTimers, errorCounts : the three Maps  *)
(*   openWatchers[id] : FSWatcher handles created for id and not closed    *)
(*   liveTimeouts[id] : setTimeout timers of id neither fired nor cleared  *)
(*   emitted          : ids for which 'needs-refresh' was emitted          *)
(* A session's lastModified holds Date.now() - lastModified, up to AgeCap. *)
(* A timer is identified by the milliseconds that remain until it is due.  *)
(***************************************************************************)
NewWatcher ==
    [ watchedSessions       |-> EmptyMap,
      refreshDebounceTimers |-> EmptyMap,
      errorCounts           |-> EmptyMap,
      openWatchers          |-> [id \in Sessions |-> 0],
      liveTimeouts          |-> [id \in Sessions |-> {}],
      emitted               |-> {} ]

\* clearTimeout that leaves the timer running.
clearTimeoutKeep(w, id, timer) == w

clearTimeout(w, id, timer) ==
    [w EXCEPT !.liveTimeouts[id] = @ \ {timer}]

\* stopWatching that leaves the pending timer of the session running.
stopWatchingKeepTimer(w, sessionId) ==
    IF sessionId \in DOMAIN w.watchedSessions
    THEN [w EXCEPT !.openWatchers[sessionId] =
                       IF w.watchedSessions[sessionId].watcher
                       THEN @ - 1 ELSE @,
                   !.watchedSessions = MapDelete(@, sessionId)]
    ELSE w

stopWatching(w, sessionId) ==
    IF sessionId \in DOMAIN w.watchedSessions
    THEN LET closed ==
                 [w EXCEPT !.openWatchers[sessionId] =
                               IF w.watchedSessions[sessionId].watcher
                               THEN @ - 1 ELSE @,
                           !.watchedSessions = MapDelete(@, sessionId)]
         IN  IF sessionId \in DOMAIN w.refreshDebounceTimers
             THEN [clearTimeout(closed, sessionId,
                                w.refreshDebounceTimers[sessionId])
                     EXCEPT !.refreshDebounceTimers = MapDelete(@, sessionId)]
             ELSE closed
    ELSE w

\* startWatching that opens the new handle without stopping the old session.
startWatchingKeepOld(w, sessionId, worktreePath, watchOk) ==
    IF watchOk
    THEN [w EXCEPT
            !.openWatchers[sessionId] = @ + 1,
            !.watchedSessions =
                MapSet(@, sessionId,
                       [ worktreePath   |-> worktreePath,
                         watcher        |-> TRUE,
                         lastModified   |-> 0,
                         pendingRefresh |-> FALSE ])]
    ELSE w

\* watchOk = FALSE: fs.watch throws (the path is missing, no watch left).
startWatching(w, sessionId, worktreePath, watchOk) ==
    LET stopped == stopWatching(w, sessionId)
    IN  IF watchOk
        THEN [stopped EXCEPT
                !.openWatchers[sessionId] = @ + 1,
                !.watchedSessions =
                    MapSet(@, sessionId,
                           [ worktreePath   |-> worktreePath,
                             watcher        |-> TRUE,
                             lastModified   |-> 0,
                             pendingRefresh |-> FALSE ])]
        ELSE stopped

RECURSIVE stopEach(_, _)
stopEach(w, ids) ==
    IF ids = {} THEN w
    ELSE LET sessionId == CHOOSE x \in ids : TRUE
         IN  stopEach(stopWatching(w, sessionId), ids \ {sessionId})

\* stopAll whose iteration ends after the first session it stops.
stopAllFirstOnly(w) ==
    IF DOMAIN w.watchedSessions = {} THEN w
    ELSE stopWatching(w, CHOOSE x \in DOMAIN w.watchedSessions : TRUE)

stopAll(w) == stopEach(w, DOMAIN w.watchedSessions)

\* The loop body that compares an extension pattern with its '*'.
ignoredByWholePattern(pattern, filename) ==
    IF endsWith(pattern, <<"/">>)
    THEN startsWith(filename, pattern) \/ includes(filename, <<"/">> \o pattern)
    ELSE IF startsWith(pattern, <<"*", ".">>)
    THEN endsWith(filename, pattern)
    ELSE IF startsWith(pattern, <<".", "#">>) \/ startsWith(pattern, <<"#">>)
    THEN LET basename == lastSegment(filename)
         IN  \/ startsWith(basename, <<".", "#">>)
             \/ (startsWith(basename, <<"#">>) /\ endsWith(basename, <<"#">>))
    ELSE IF endsWith(pattern, <<"~">>)
    THEN endsWith(filename, <<"~">>)
    ELSE filename = pattern \/ endsWith(filename, <<"/">> \o pattern)

\* One iteration of the loop of shouldIgnoreFile.
ignoredBy(pattern, filename) ==
    IF endsWith(pattern, <<"/">>)
    THEN startsWith(filename, pattern) \/ includes(filename, <<"/">> \o pattern)
    ELSE IF startsWith(pattern, <<"*", ".">>)
    THEN endsWith(filename, Tail(pattern))
    ELSE IF startsWith(pattern, <<".", "#">>) \/ startsWith(pattern, <<"#">>)
    THEN LET basename == lastSegment(filename)
         IN  \/ startsWith(basename, <<".", "#">>)
             \/ (startsWith(basename, <<"#">>) /\ endsWith(basename, <<"#">>))
    ELSE IF endsWith(pattern, <<"~">>)
    THEN endsWith(filename, <<"~">>)
    ELSE filename = pattern \/ endsWith(filename, <<"/">> \o pattern)

shouldIgnoreFile(filename) ==
    \E i \in 1..Len(IGNORE_PATTERNS) : ignoredBy(IGNORE_PATTERNS[i], filename)

\* shouldIgnoreFile over the event paths of the model, computed once.
ignoredFileNames == {filename \in FileNames : shouldIgnoreFile(filename)}

\* Scheduling that does not clear the timer already armed.
scheduleWithoutClear(w, sessionId, delayMs) ==
    [w EXCEPT
        !.liveTimeouts[sessionId] = @ \cup {delayMs},
        !.refreshDebounceTimers = MapSet(@, sessionId, delayMs)]

scheduleRefreshCheckWithDelay(w, sessionId, delayMs) ==
    LET cleared == IF sessionId \in DOMAIN w.refreshDebounceTimers
                   THEN clearTimeout(w, sessionId,
                                     w.refreshDebounceTimers[sessionId])
                   ELSE w
    IN  [cleared EXCEPT
            !.liveTimeouts[sessionId] = @ \cup {delayMs},
            !.refreshDebounceTimers = MapSet(@, sessionId, delayMs)]

scheduleRefreshCheck(w, sessionId) ==
    scheduleRefreshCheckWithDelay(w, sessionId, DEBOUNCE_MS)

\* handleFileChange that marks the session and schedules no check.
handleFileChangeNoSchedule(w, sessionId, filename) ==
    IF filename \in ignoredFileNames THEN w
    ELSE IF sessionId \notin DOMAIN w.watchedSessions THEN w
    ELSE [w EXCEPT !.watchedSessions[sessionId].lastModified = 0,
                   !.watchedSessions[sessionId].pendingRefresh = TRUE]

handleFileChange(w, sessionId, filename) ==
    IF filename \in ignoredFileNames THEN w
    ELSE IF sessionId \notin DOMAIN w.watchedSessions THEN w
    ELSE scheduleRefreshCheck(
             [w EXCEPT !.watchedSessions[sessionId].lastModified = 0,
                       !.watchedSessions[sessionId].pendingRefresh = TRUE],
             sessionId)

\* The backoff delay without its upper limit.
getBackoffDelayUncapped(w, sessionId) ==
    LET count == (IF sessionId \in DOMAIN w.errorCounts
                  THEN w.errorCounts[sessionId] ELSE 0) + 1
    IN  [ w     |-> [w EXCEPT !.errorCounts = MapSet(@, sessionId, count)],
          delay |-> BASE_BACKOFF_MS * 2^(count - 1) ]

\* Returns the delay and the watcher with the incremented count.
getBackoffDelay(w, sessionId) ==
    LET count == (IF sessionId \in DOMAIN w.errorCounts
                  THEN w.errorCounts[sessionId] ELSE 0) + 1
    IN  [ w     |-> [w EXCEPT !.errorCounts = MapSet(@, sessionId, count)],
          delay |-> Min(BASE_BACKOFF_MS * 2^(count - 1), MAX_BACKOFF_MS) ]

\* resetBackoff that keeps the count.
resetBackoffKeepCount(w, sessionId) == w

resetBackoff(w, sessionId) ==
    [w EXCEPT !.errorCounts = MapDelete(@, sessionId)]

\* checkIfRefreshNeeded that refreshes the index before it looks for the
\* lock file.
checkIfRefreshNeededRefreshFirst(worktreePath, gw) ==
    IF gw.insideWorkTree # "true"
    THEN [value |-> "undefined", calls |-> <<"inside-work-tree">>]
    ELSE IF gw.gitDir = "throw"
    THEN [value |-> "undefined", calls |-> <<"inside-work-tree", "git-dir">>]
    ELSE IF gw.updateIndex = "throw" \/ gw.lockExists = "yes"
    THEN [value |-> "undefined",
          calls |-> <<"inside-work-tree", "git-dir", "update-index">>]
    ELSE IF gw.diffFiles # "exit0"
    THEN [value |-> "true",
          calls |-> <<"inside-work-tree", "git-dir", "update-index",
                      "diff-files">>]
    ELSE IF gw.diffIndex # "exit0"
    THEN [value |-> "true",
          calls |-> <<"inside-work-tree", "git-dir", "update-index",
                      "diff-files", "diff-index">>]
    ELSE [value |-> CASE gw.lsFiles = "nonempty" -> "true"
                      [] gw.lsFiles = "empty"    -> "false"
                      [] OTHER                   -> "undefined",
          calls |-> <<"inside-work-tree", "git-dir", "update-index",
                      "diff-files", "diff-index", "ls-files">>]

\* "true", "false" or "undefined", and the gateway calls issued, in order.
checkIfRefreshNeeded(worktreePath, gw) ==
    IF gw.insideWorkTree # "true"
    THEN [value |-> "undefined", calls |-> <<"inside-work-tree">>]
    ELSE IF gw.gitDir = "throw" \/ gw.lockExists = "yes"
    THEN [value |-> "undefined", calls |-> <<"inside-work-tree", "git-dir">>]
    ELSE IF gw.updateIndex = "throw"
    THEN [value |-> "undefined",
          calls |-> <<"inside-work-tree", "git-dir", "update-index">>]
    ELSE IF gw.diffFiles # "exit0"
    THEN [value |-> "true",
          calls |-> <<"inside-work-tree", "git-dir", "update-index",
                      "diff-files">>]
    ELSE IF gw.diffIndex # "exit0"
    THEN [value |-> "true",
          calls |-> <<"inside-work-tree", "git-dir", "update-index",
                      "diff-files", "diff-index">>]
    ELSE [value |-> CASE gw.lsFiles = "nonempty" -> "true"
                      [] gw.lsFiles = "empty"    -> "false"
                      [] OTHER                   -> "undefined",
          calls |-> <<"inside-work-tree", "git-dir", "update-index",
                      "diff-files", "diff-index", "ls-files">>]

\* performRefreshCheck that also emits when the check is inconclusive.
performRefreshCheckEmitAlways(w, sessionId, gw) ==
    IF \/ sessionId \notin DOMAIN w.watchedSessions
       \/ ~w.watchedSessions[sessionId].pendingRefresh
    THEN w
    ELSE LET session == w.watchedSessions[sessionId]
             w1 == [w EXCEPT
                      !.watchedSessions[sessionId].pendingRefresh = FALSE,
                      !.emitted = @ \cup {sessionId}]
             needsRefresh ==
                 checkIfRefreshNeeded(session.worktreePath, gw).value
         IN  IF needsRefresh = "undefined"
             THEN LET b == getBackoffDelay(w1, sessionId)
                  IN  scheduleRefreshCheckWithDelay(
                          [b.w EXCEPT
                             !.watchedSessions[sessionId].pendingRefresh = TRUE],
                          sessionId, b.delay)
             ELSE resetBackoff(w1, sessionId)

\* The listeners of 'needs-refresh' belong to the caller and do not throw,
\* so the catch clause of performRefreshCheck is not entered.
performRefreshCheck(w, sessionId, gw) ==
    IF \/ sessionId \notin DOMAIN w.watchedSessions
       \/ ~w.watchedSessions[sessionId].pendingRefresh
    THEN w
    ELSE LET session == w.watchedSessions[sessionId]
             w1 == [w EXCEPT
                      !.watchedSessions[sessionId].pendingRefresh = FALSE]
             needsRefresh ==
                 checkIfRefreshNeeded(session.worktreePath, gw).value
         IN  IF needsRefresh = "undefined"
             THEN LET b == getBackoffDelay(w1, sessionId)
                  IN  scheduleRefreshCheckWithDelay(
                          [b.w EXCEPT
                             !.watchedSessions[sessionId].pendingRefresh = TRUE],
                          sessionId, b.delay)
             ELSE LET w2 == resetBackoff(w1, sessionId)
                  IN  IF needsRefresh = "true"
                      THEN [w2 EXCEPT !.emitted = @ \cup {sessionId}]
                      ELSE w2

\* The callback without the delete of the timer that has fired.
timeoutCallbackKeepEntry(w, sessionId, gw) ==
    performRefreshCheck(w, sessionId, gw)

\* The callback that scheduleRefreshCheckWithDelay hands to setTimeout.
timeoutCallback(w, sessionId, gw) ==
    performRefreshCheck(
        [w EXCEPT !.refreshDebounceTimers = MapDelete(@, sessionId)],
        sessionId, gw)

getStats(w) ==
    [ totalWatched |-> Cardinality(DOMAIN w.watchedSessions),
      sessionsNeedingRefresh |->
          Cardinality({id \in DOMAIN w.watchedSessions :
                          w.watchedSessions[id].pendingRefresh}) ]

(***************************************************************************)
(* GitDiffManager (src/main/src/services/gitDiffManager.ts).               *)
(*                                                                         *)
(* A GitDiffResult is a record diff, stats, changedFiles, beforeHash,      *)
(* afterHash; an absent hash is "undefined".                               *)
(***************************************************************************)
RECURSIVE sumAdditions(_, _)
\* diffs.reduce((sum, d) => sum + d.stats.additions, 0)
sumAdditions(diffs, sum) ==
    IF Len(diffs) = 0 THEN sum
    ELSE sumAdditions(Tail(diffs), sum + Head(diffs).stats.additions)

RECURSIVE sumDeletions(_, _)
sumDeletions(diffs, sum) ==
    IF Len(diffs) = 0 THEN sum
    ELSE sumDeletions(Tail(diffs), sum + Head(diffs).stats.deletions)

\* Set.prototype.add: a Set keeps its elements in the order of insertion.
setAdd(elems, f) ==
    IF \E i \in 1..Len(elems) : elems[i] = f THEN elems ELSE Append(elems, f)

RECURSIVE addAll(_, _)
addAll(elems, files) ==
    IF Len(files) = 0 THEN elems
    ELSE addAll(setAdd(elems, Head(files)), Tail(files))

RECURSIVE collectFiles(_, _)
\* diffs.forEach(d => d.changedFiles.forEach(f => allFiles.add(f)))
collectFiles(allFiles, diffs) ==
    IF Len(diffs) = 0 THEN allFiles
    ELSE collectFiles(addAll(allFiles, Head(diffs).changedFiles), Tail(diffs))

\* combineDiffs that counts the changed files of every diff.
combineDiffsCountAll(diffs) ==
    LET changedFiles == collectFiles(<< >>, diffs)
        RECURSIVE count(_)
        count(ds) == IF Len(ds) = 0 THEN 0
                     ELSE Len(Head(ds).changedFiles) + count(Tail(ds))
    IN  [ diff  |-> join([i \in 1..Len(diffs) |-> diffs[i].diff],
                         <<"\n", "\n">>),
          stats |-> [ additions    |-> sumAdditions(diffs, 0),
                      deletions    |-> sumDeletions(diffs, 0),
                      filesChanged |-> count(diffs) ],
          changedFiles |-> changedFiles,
          beforeHash |-> IF Len(diffs) > 0 THEN diffs[1].beforeHash
                         ELSE "undefined",
          afterHash  |-> IF Len(diffs) > 0 THEN diffs[Len(diffs)].afterHash
                         ELSE "undefined" ]

combineDiffs(diffs) ==
    LET changedFiles == collectFiles(<< >>, diffs)
    IN  [ diff  |-> join([i \in 1..Len(diffs) |-> diffs[i].diff],
                         <<"\n", "\n">>),
          stats |-> [ additions    |-> sumAdditions(diffs, 0),
                      deletions    |-> sumDeletions(diffs, 0),
                      filesChanged |-> Len(changedFiles) ],
          changedFiles |-> changedFiles,
          beforeHash |-> IF Len(diffs) > 0 THEN diffs[1].beforeHash
                         ELSE "undefined",
          afterHash  |-> IF Len(diffs) > 0 THEN diffs[Len(diffs)].afterHash
                         ELSE "undefined" ]

\* The end of the run of digits that starts at position i of line.
digitsEnd(line, i) ==
    CHOOSE j \in i..Len(line) :
       /\ \A k \in i..j : isDigit(line[k])
       /\ (j = Len(line) \/ ~isDigit(line[j + 1]))

\* line.match(/(\d+)<literal>/) for one of the literals: the digits that
\* the leftmost match captures, << >> when nothing matches.
matchCount(line, literals) ==
    LET starts == {i \in 1..Len(line) :
                     /\ isDigit(line[i])
                     /\ \E lit \in literals :
                           LET j == digitsEnd(line, i)
                           IN  /\ j + Len(lit) <= Len(line)
                               /\ SubSeq(line, j + 1, j + Len(lit)) = lit}
    IN  IF starts = {} THEN << >>
        ELSE LET i == CHOOSE x \in starts : \A y \in starts : x <= y
             IN  SubSeq(line, i, digitsEnd(line, i))

parseDiffStatsFirstLine(statsOutput) ==
    LET lines == split(trim(statsOutput), "\n")
        summaryLine == lines[1]
        fileMatch == matchCount(summaryLine,
                        { <<" ", "f", "i", "l", "e", " ", "c", "h", "a", "n", "g", "e", "d">>,
                          <<" ", "f", "i", "l", "e", "s", " ", "c", "h", "a", "n", "g", "e", "d">> })
        addMatch == matchCount(summaryLine,
                        { <<" ", "i", "n", "s", "e", "r", "t", "i", "o", "n", "(", "+", ")">>,
                          <<" ", "i", "n", "s", "e", "r", "t", "i", "o", "n", "s", "(", "+", ")">> })
        delMatch == matchCount(summaryLine,
                        { <<" ", "d", "e", "l", "e", "t", "i", "o", "n", "(", "-", ")">>,
                          <<" ", "d", "e", "l", "e", "t", "i", "o", "n", "s", "(", "-", ")">> })
    IN  [ filesChanged |-> IF fileMatch # << >> THEN parseInt(fileMatch) ELSE 0,
          additions    |-> IF addMatch # << >> THEN parseInt(addMatch) ELSE 0,
          deletions    |-> IF delMatch # << >> THEN parseInt(delMatch) ELSE 0 ]

parseDiffStats(statsOutput) ==
    LET lines == split(trim(statsOutput), "\n")
        summaryLine == lines[Len(lines)]
        fileMatch == matchCount(summaryLine,
                        { <<" ", "f", "i", "l", "e", " ", "c", "h", "a", "n", "g", "e", "d">>,
                          <<" ", "f", "i", "l", "e", "s", " ", "c", "h", "a", "n", "g", "e", "d">> })
        addMatch == matchCount(summaryLine,
                        { <<" ", "i", "n", "s", "e", "r", "t", "i", "o", "n", "(", "+", ")">>,
                          <<" ", "i", "n", "s", "e", "r", "t", "i", "o", "n", "s", "(", "+", ")">> })
        delMatch == matchCount(summaryLine,
                        { <<" ", "d", "e", "l", "e", "t", "i", "o", "n", "(", "-", ")">>,
                          <<" ", "d", "e", "l", "e", "t", "i", "o", "n", "s", "(", "-", ")">> })
    IN  [ filesChanged |-> IF fileMatch # << >> THEN parseInt(fileMatch) ELSE 0,
          additions    |-> IF addMatch # << >> THEN parseInt(addMatch) ELSE 0,
          deletions    |-> IF delMatch # << >> THEN parseInt(delMatch) ELSE 0 ]

(***************************************************************************)
(* The working tree as the gateway and the file system show it:            *)
(*   head      : the current commit                                        *)
(*   tracked   : the changes of tracked files against HEAD: their names,   *)
(*               the inserted and deleted lines, the diff text             *)
(*   untracked : the untracked files: name, readable, binary, content      *)
(*   fails     : the commands that fail                                    *)
(***************************************************************************)
plural(n, word) == IF n = 1 THEN word ELSE word \o <<"s">>

\* The output of 'git diff --stat HEAD': a line for each file, then the
\* summary; nothing when no tracked file has changed.
gitDiffStat(tracked) ==
    LET n == Len(tracked.files)
        fileLine(i) == <<" ">> \o tracked.files[i]
                       \o <<" ", "|", " ", "1", " ", "+", "\n">>
        RECURSIVE fileLines(_)
        fileLines(i) == IF i > n THEN << >> ELSE fileLine(i) \o fileLines(i + 1)
        ins == <<",", " ">> \o decimal(tracked.additions)
               \o plural(tracked.additions, <<" ", "i", "n", "s", "e", "r", "t", "i", "o", "n">>)
               \o <<"(", "+", ")">>
        del == <<",", " ">> \o decimal(tracked.deletions)
               \o plural(tracked.deletions, <<" ", "d", "e", "l", "e", "t", "i", "o", "n">>)
               \o <<"(", "-", ")">>
    IN  IF n = 0 THEN << >>
        ELSE fileLines(1)
             \o <<" ">> \o decimal(n) \o plural(n, <<" ", "f", "i", "l", "e">>)
             \o <<" ", "c", "h", "a", "n", "g", "e", "d">>
             \o (IF tracked.additions > 0 \/ tracked.deletions = 0
                 THEN ins ELSE << >>)
             \o (IF tracked.deletions > 0 \/ tracked.additions = 0
                 THEN del ELSE << >>)
             \o <<"\n">>

\* The output of a command that lists file names, one on each line.
nameLines(names) ==
    IF Len(names) = 0 THEN << >>
    ELSE join(names, <<"\n">>) \o <<"\n">>

untrackedNames(tree) == [i \in 1..Len(tree.untracked) |-> tree.untracked[i].name]

\* fs.readFileSync(path.join(worktreePath, cleanFile), 'utf8'): the file,
\* whose field readable is FALSE when the read throws (permission denied).
\* The read of a binary file does not throw: it returns the bytes decoded
\* as UTF-8.
readFileSync(tree, cleanFile) ==
    IF \E i \in 1..Len(tree.untracked) : tree.untracked[i].name = cleanFile
    THEN LET i == CHOOSE k \in 1..Len(tree.untracked) :
                    tree.untracked[k].name = cleanFile
         IN  tree.untracked[i]
    ELSE [ name |-> cleanFile, readable |-> FALSE, binary |-> FALSE,
           content |-> << >> ]

getCurrentCommitHash(tree) ==
    IF "rev-parse" \in tree.fails THEN << >> ELSE trim(tree.head \o <<"\n">>)

getUntrackedFiles(tree) ==
    IF "ls-files" \in tree.fails THEN << >>
    ELSE LET output == nameLines(untrackedNames(tree))
         IN  IF Len(trim(output)) = 0 THEN << >>
             ELSE filterNonBlank(split(trim(output), "\n"))

RECURSIVE createDiffForUntrackedFiles(_, _)
createDiffForUntrackedFiles(tree, untrackedFiles) ==
    IF Len(untrackedFiles) = 0 THEN << >>
    ELSE LET file == Head(untrackedFiles)
             cleanFile == trim(file)
             f == readFileSync(tree, cleanFile)
             lines == splitLines(f.content)
             RECURSIVE plusLines(_)
             plusLines(i) ==
                 IF i > Len(lines) THEN << >>
                 ELSE <<"+">> \o lines[i] \o <<"\n">> \o plusLines(i + 1)
             section ==
                 <<"d", "i", "f", "f", " ", "-", "-", "g", "i", "t", " ", "a", "/">>
                 \o cleanFile \o <<" ", "b", "/">> \o cleanFile \o <<"\n">>
                 \o <<"n", "e", "w", " ", "f", "i", "l", "e", " ", "m", "o", "d", "e", " ", "1", "0", "0", "6", "4", "4", "\n">>
                 \o <<"i", "n", "d", "e", "x", " ", "0", "0", "0", "0", "0", "0", "0", ".", ".", "0", "0", "0", "0", "0", "0", "0", "\n">>
                 \o <<"-", "-", "-", " ", "/", "d", "e", "v", "/", "n", "u", "l", "l", "\n">>
                 \o <<"+", "+", "+", " ", "b", "/">> \o cleanFile \o <<"\n">>
                 \o (IF Len(lines) > 0
                     THEN <<"@", "@", " ", "-", "0", ",", "0", " ", "+", "1", ",">>
                          \o decimal(Len(lines)) \o <<" ", "@", "@", "\n">>
                          \o plusLines(1)
                     ELSE << >>)
         IN  (IF Len(trim(file)) = 0 \/ ~f.readable THEN << >> ELSE section)
             \o createDiffForUntrackedFiles(tree, Tail(untrackedFiles))

getGitDiffString(tree) ==
    IF "rev-parse-git-dir" \in tree.fails THEN << >>
    ELSE IF "status" \in tree.fails \/ "diff" \in tree.fails THEN << >>
    ELSE LET diff == tree.tracked.diff
             untrackedFiles == getUntrackedFiles(tree)
             untrackedDiff == createDiffForUntrackedFiles(tree, untrackedFiles)
         IN  IF Len(untrackedFiles) > 0 /\ Len(untrackedDiff) > 0
             THEN IF Len(diff) > 0 THEN diff \o <<"\n">> \o untrackedDiff
                  ELSE untrackedDiff
             ELSE diff

getChangedFiles(tree) ==
    IF "diff-name-only" \in tree.fails THEN << >>
    ELSE LET trackedOutput == nameLines(tree.tracked.files)
             trackedFiles ==
                 LET parts == split(trim(trackedOutput), "\n")
                     RECURSIVE nonEmpty(_)
                     nonEmpty(ps) ==
                         IF Len(ps) = 0 THEN << >>
                         ELSE IF Len(Head(ps)) > 0
                         THEN <<Head(ps)>> \o nonEmpty(Tail(ps))
                         ELSE nonEmpty(Tail(ps))
                 IN  nonEmpty(parts)
         IN  trackedFiles \o getUntrackedFiles(tree)

RECURSIVE untrackedAdditions(_, _)
\* The loop of getDiffStats over the untracked files.
untrackedAdditions(tree, untrackedFiles) ==
    IF Len(untrackedFiles) = 0 THEN 0
    ELSE LET file == Head(untrackedFiles)
             f == readFileSync(tree, trim(file))
             lineCount == IF Len(f.content) = 0 THEN 0
                          ELSE Len(splitLines(f.content))
         IN  (IF Len(trim(file)) = 0 \/ ~f.readable THEN 0 ELSE lineCount)
             + untrackedAdditions(tree, Tail(untrackedFiles))

getDiffStats(tree) ==
    IF "diff-stat" \in tree.fails
    THEN [additions |-> 0, deletions |-> 0, filesChanged |-> 0]
    ELSE LET trackedStats == parseDiffStats(gitDiffStat(tree.tracked))
             untrackedFiles == getUntrackedFiles(tree)
         IN  IF Len(untrackedFiles) > 0
             THEN [ additions |-> trackedStats.additions
                                  + untrackedAdditions(tree, untrackedFiles),
                    deletions |-> trackedStats.deletions,
                    filesChanged |-> trackedStats.filesChanged
                                     + Len(untrackedFiles) ]
             ELSE trackedStats

captureWorkingDirectoryDiff(tree) ==
    [ diff         |-> getGitDiffString(tree),
      stats        |-> getDiffStats(tree),
      changedFiles |-> getChangedFiles(tree),
      beforeHash   |-> getCurrentCommitHash(tree),
      afterHash    |-> "undefined" ]

(***************************************************************************)
(* GitDiffManager: commit history and the diff of one commit.              *)
(***************************************************************************)
\* The character \x00.
NUL == "\\0"

\* A destructured array element or a Map entry that is not there.
Undefined == <<"undefined">>

\* new Date() of the fallback.
Now == <<"now">>

\* The dates new Date(date) can parse: the ones git prints for %ai.
ValidDates == { <<"d", "1">>, <<"d", "2">> }

ZeroStats == [additions |-> 0, deletions |-> 0, filesChanged |-> 0]

\* String.prototype.split(/\s+/) of a trimmed line.
RECURSIVE splitWs(_)
splitWs(s) ==
    LET at == {i \in 1..Len(s) : s[i] \in Whitespace}
    IN  IF at = {} THEN <<s>>
        ELSE LET first == CHOOSE i \in at : \A j \in at : i <= j
                 rest == SubSeq(s, first + 1, Len(s))
                 keep == {i \in 1..Len(rest) : rest[i] \notin Whitespace}
                 next == IF keep = {} THEN Len(rest) + 1
                         ELSE CHOOSE i \in keep : \A j \in keep : i <= j
             IN  <<SubSeq(s, 1, first - 1)>>
                 \o splitWs(SubSeq(rest, next, Len(rest)))

\* parseInt(s, 10): the number written by the leading digits of s, NaN when
\* s has none.
parseInt10(s) ==
    LET stops == {i \in 1..Len(s) : ~isDigit(s[i])}
        n == IF stops = {} THEN Len(s)
             ELSE (CHOOSE i \in stops : \A j \in stops : i <= j) - 1
    IN  IF n = 0 THEN [nan |-> TRUE, value |-> 0]
        ELSE [nan |-> FALSE, value |-> parseInt(SubSeq(s, 1, n))]

RECURSIVE parseNumstatOutput(_)
parseNumstatOutput(lines) ==
    IF Len(lines) = 0 THEN ZeroStats
    ELSE LET rest == parseNumstatOutput(SubSeq(lines, 1, Len(lines) - 1))
             parts == splitWs(trim(lines[Len(lines)]))
             added == IF parts[1] = <<"-">> THEN [nan |-> FALSE, value |-> 0]
                      ELSE parseInt10(parts[1])
             deleted == IF parts[2] = <<"-">> THEN [nan |-> FALSE, value |-> 0]
                        ELSE parseInt10(parts[2])
         IN  IF Len(parts) >= 3 /\ ~added.nan /\ ~deleted.nan
             THEN [ additions |-> rest.additions + added.value,
                    deletions |-> rest.deletions + deleted.value,
                    filesChanged |-> rest.filesChanged + 1 ]
             ELSE rest

\* new Date(date), with the fallback to the current date.
parseDate(date) == IF date \in ValidDates THEN date ELSE Now

\* git log --format="%H|%s|%ai|%an" --numstat: for every commit its header
\* line and, when the commit touches files, an empty line and one line
\* "added<TAB>deleted<TAB>path" for each file ("-" for a binary file).
RECURSIVE numstatLines(_)
numstatLines(files) ==
    IF Len(files) = 0 THEN << >>
    ELSE LET f == Head(files)
         IN  (IF f.binary THEN <<"-", "\t", "-">>
              ELSE decimal(f.added) \o <<"\t">> \o decimal(f.deleted))
             \o <<"\t">> \o f.path \o <<"\n">>
             \o numstatLines(Tail(files))

RECURSIVE gitLogNumstat(_)
gitLogNumstat(commits) ==
    IF Len(commits) = 0 THEN << >>
    ELSE LET c == Head(commits)
         IN  c.hash \o <<"|">> \o c.subject \o <<"|">> \o c.date \o <<"|">>
             \o c.author \o <<"\n">>
             \o (IF Len(c.files) > 0 THEN <<"\n">> \o numstatLines(c.files)
                 ELSE << >>)
             \o gitLogNumstat(Tail(commits))

\* The message of a commit as git stores it: the subject, then an empty
\* line and the body when there is one.
fullMessage(c) ==
    c.subject
    \o (IF Len(c.body) > 0 THEN <<"\n", "\n">> \o c.body ELSE << >>)
    \o <<"\n">>

\* git log --format="%H%x00%B%x00": --format=<string> is tformat, so git
\* ends the entry of every commit with a line feed.
RECURSIVE gitLogFull(_)
gitLogFull(commits) ==
    IF Len(commits) = 0 THEN << >>
    ELSE LET c == Head(commits)
         IN  c.hash \o <<NUL>> \o fullMessage(c) \o <<NUL>> \o <<"\n">>
             \o gitLogFull(Tail(commits))

\* The commits git log -n limit lists, newest first.
listed(repo, limit) ==
    SubSeq(repo.commits, 1, Min(limit, Len(repo.commits)))

\* The loop of getCommitHistory over the lines of the log: commits are
\* the records pushed so far (currentCommit is the last of them).
RECURSIVE walkLog(_, _, _)
walkLog(lines, commits, statsLines) ==
    IF Len(lines) = 0 THEN [commits |-> commits, statsLines |-> statsLines]
    ELSE LET line == Head(lines)
         IN  IF includes(line, <<"|">>)
             THEN LET closed ==
                          IF Len(commits) > 0 /\ Len(statsLines) > 0
                          THEN [commits EXCEPT ![Len(commits)].stats =
                                                 parseNumstatOutput(statsLines)]
                          ELSE commits
                      parts == split(line, "|")
                      field(k) == IF Len(parts) >= k THEN parts[k]
                                  ELSE Undefined
                      currentCommit ==
                          [ hash    |-> field(1),
                            message |-> field(2),
                            date    |-> parseDate(field(3)),
                            author  |-> field(4),
                            stats   |-> ZeroStats ]
                  IN  walkLog(Tail(lines), Append(closed, currentCommit), << >>)
             ELSE IF Len(trim(line)) > 0 /\ Len(commits) > 0
             THEN walkLog(Tail(lines), commits, Append(statsLines, line))
             ELSE walkLog(Tail(lines), commits, statsLines)

\* Array.prototype.filter(Boolean) over strings: the non-empty ones.
RECURSIVE filterBoolean(_)
filterBoolean(parts) ==
    IF Len(parts) = 0 THEN << >>
    ELSE IF Len(Head(parts)) > 0
    THEN <<Head(parts)>> \o filterBoolean(Tail(parts))
    ELSE filterBoolean(Tail(parts))

\* for (let i = 0; i + 1 < parts.length; i += 2) fullMap.set(h, msg), with
\* i counted from 1.
RECURSIVE buildFullMap(_, _, _)
buildFullMap(parts, i, fullMap) ==
    IF i + 1 > Len(parts) THEN fullMap
    ELSE buildFullMap(parts, i + 2,
                      MapSet(fullMap, parts[i], trim(parts[i + 1])))

\* The second pass of getCommitHistory: the full messages, put back by
\* hash.
spliceMessages(commits, fullOutput) ==
    LET parts == filterBoolean(split(fullOutput, NUL))
        fullMap == buildFullMap(parts, 1, EmptyMap)
    IN  [ k \in 1..Len(commits) |->
            IF commits[k].hash \in DOMAIN fullMap
               /\ Len(fullMap[commits[k].hash]) > 0
            THEN [commits[k] EXCEPT !.message = fullMap[commits[k].hash]]
            ELSE commits[k] ]

\* The text 'Git error: ' that the rethrown error starts with.
GitErrorPrefix == <<"G", "i", "t", " ", "e", "r", "r", "o", "r", ":", " ">>

\* error instanceof Error ? error.message : 'Unknown error'
errorMessageOf(error) ==
    IF error.isError THEN error.message
    ELSE <<"U", "n", "k", "n", "o", "w", "n", " ", "e", "r", "r", "o", "r">>

\* getCommitHistory(worktreePath, limit, mainBranch): repo is what the two
\* git log commands find in worktreePath: its branch-unique commits and
\* the error, if any, that each command ends with.
getCommitHistory(repo, limit) ==
    IF repo.logError.fails
    THEN LET errorMessage == errorMessageOf(repo.logError)
         IN  IF \/ includes(errorMessage, <<"f", "a", "t", "a", "l", ":">>)
                \/ includes(errorMessage, <<"e", "r", "r", "o", "r", ":">>)
             THEN [ thrown |-> TRUE, commits |-> << >>,
                    message |-> GitErrorPrefix \o errorMessage ]
             ELSE [thrown |-> FALSE, commits |-> << >>, message |-> << >>]
    ELSE LET logOutput == gitLogNumstat(listed(repo, limit))
             lines == split(trim(logOutput), "\n")
             walked == walkLog(lines, << >>, << >>)
             spliced == IF repo.fullError.fails THEN walked.commits
                        ELSE spliceMessages(walked.commits,
                                            gitLogFull(listed(repo, limit)))
             commits ==
                 IF Len(spliced) > 0 /\ Len(walked.statsLines) > 0
                 THEN [spliced EXCEPT ![Len(spliced)].stats =
                                        parseNumstatOutput(walked.statsLines)]
                 ELSE spliced
         IN  [thrown |-> FALSE, commits |-> commits, message |-> << >>]

\* The commit of repo with this hash, as a sequence of none or one.
commitOf(repo, commitHash) ==
    SelectSeq(repo.commits, LAMBDA c : c.hash = commitHash)

\* git show of a commit fails when the command cannot run in worktreePath
\* and when the repository has no such commit.
gitShowFails(repo, commitHash) ==
    repo.showError.fails \/ Len(commitOf(repo, commitHash)) = 0

RECURSIVE sumAdded(_)
sumAdded(files) ==
    IF Len(files) = 0 THEN 0
    ELSE (IF Head(files).binary THEN 0 ELSE Head(files).added)
         + sumAdded(Tail(files))

RECURSIVE sumDeleted(_)
sumDeleted(files) ==
    IF Len(files) = 0 THEN 0
    ELSE (IF Head(files).binary THEN 0 ELSE Head(files).deleted)
         + sumDeleted(Tail(files))

\* The changes of a commit in the shape gitDiffStat prints.
changesOf(c) ==
    [ files     |-> [i \in 1..Len(c.files) |-> c.files[i].path],
      additions |-> sumAdded(c.files),
      deletions |-> sumDeleted(c.files),
      diff      |-> IF Len(c.files) = 0 THEN << >>
                    ELSE <<"D", "\n">> ]

getCommitStats(repo, commitHash) ==
    IF gitShowFails(repo, commitHash) THEN ZeroStats
    ELSE LET fullOutput == gitDiffStat(changesOf(commitOf(repo, commitHash)[1]))
             lines == split(trim(fullOutput), "\n")
             statsOutput == lines[Len(lines)]
         IN  parseDiffStats(statsOutput)

getCommitChangedFiles(repo, commitHash) ==
    IF gitShowFails(repo, commitHash) THEN << >>
    ELSE LET output == nameLines(changesOf(commitOf(repo, commitHash)[1]).files)
         IN  filterBoolean(split(trim(output), "\n"))

\* getCommitDiff(worktreePath, commitHash): the catch returns the empty
\* result, so nothing is thrown.
getCommitDiff(repo, commitHash) ==
    IF gitShowFails(repo, commitHash)
    THEN [ thrown |-> FALSE,
           diff |-> << >>, stats |-> ZeroStats, changedFiles |-> << >>,
           beforeHash |-> Undefined, afterHash |-> Undefined ]
    ELSE [ thrown |-> FALSE,
           diff |-> changesOf(commitOf(repo, commitHash)[1]).diff,
           stats |-> getCommitStats(repo, commitHash),
           changedFiles |-> getCommitChangedFiles(repo, commitHash),
           beforeHash |-> commitHash \o <<"~", "1">>,
           afterHash |-> commitHash ]

(***************************************************************************)
(* The ignore patterns read as globs over the segments of a path: a        *)
(* directory pattern names a directory on the path, a file pattern the     *)
(* last segment.                                                           *)
(***************************************************************************)
RECURSIVE pathSegments(_)
pathSegments(s) ==
    LET slashes == {i \in 1..Len(s) : s[i] = "/"}
    IN  IF slashes = {} THEN <<s>>
        ELSE LET first == CHOOSE i \in slashes : \A j \in slashes : i <= j
             IN  <<SubSeq(s, 1, first - 1)>>
                 \o pathSegments(SubSeq(s, first + 1, Len(s)))

matchesIgnorePattern(filename) ==
    LET segs == pathSegments(filename)
        base == segs[Len(segs)]
    IN  \/ \E i \in 1..(Len(segs) - 1) :
              segs[i] \in { <<".", "g", "i", "t">>,
                            <<"n", "o", "d", "e", "_", "m", "o", "d", "u", "l",
                              "e", "s">> }
        \/ base \in { <<".", "D", "S", "_", "S", "t", "o", "r", "e">>,
                      <<"t", "h", "u", "m", "b", "s", ".", "d", "b">> }
        \/ \E suffix \in { <<".", "s", "w", "p">>, <<".", "s", "w", "o">>,
                            <<"~">> } : endsWith(base, suffix)
        \/ startsWith(base, <<".", "#">>)
        \/ (Len(base) >= 2 /\ base[1] = "#" /\ base[Len(base)] = "#")

ignorableFileNames == {filename \in FileNames : matchesIgnorePattern(filename)}

pathClass(filename) ==
    IF filename \in ignorableFileNames THEN "ignorable" ELSE "ordinary"

(***************************************************************************)
(* State.                                                                  *)
(*   watcher : the GitFileWatcher instance                                 *)
(*   step    : the operation that produced the current state: for an event *)
(*             of the filesystem the class of its path, for a check its    *)
(*             result, the delay of the timer it armed and the failure     *)
(*             count it found and whether a gateway call failed, for a     *)
(*             lifecycle call the sessions it found registered and with a  *)
(*             timer                                                       *)
(*   burst[id]            : while no more than DEBOUNCE_MS have passed     *)
(*                          since the last non-ignored event of id: the    *)
(*                          events of its burst; 0 afterwards              *)
(*   checksInWindow[id]   : the checks of id run in that time              *)
(*   inconclusiveRun[id]  : inconclusive checks of id since its last       *)
(*                          definitive result                              *)
(*   cycleEmits[id]       : emissions for id since it last left Idle       *)
(*   dm      : the last call of the GitDiffManager or of a parser, its     *)
(*             input and result                                            *)
(***************************************************************************)
VARIABLES watcher, step, burst, checksInWindow, inconclusiveRun,
          cycleEmits, dm

vars ==
    <<watcher, step, burst, checksInWindow, inconclusiveRun, cycleEmits, dm>>

watcherVars ==
    <<watcher, step, burst, checksInWindow, inconclusiveRun, cycleEmits>>

NoStep ==
    [op |-> "init", sessionId |-> "", pathClass |-> "-",
     result |-> "none", delay |-> 0, streakBefore |-> 0,
     stopped |-> {}, disarmed |-> {}, gatewayError |-> FALSE]

DmIdle == [op |-> "none"]

registered(id) == id \in DOMAIN watcher.watchedSessions

pending(id) == registered(id) /\ watcher.watchedSessions[id].pendingRefresh

armed(id) == id \in DOMAIN watcher.refreshDebounceTimers

lastModifiedAge(id) == watcher.watchedSessions[id].lastModified

errorCount(id) ==
    IF id \in DOMAIN watcher.errorCounts THEN watcher.errorCounts[id] ELSE 0

totalErrors ==
    LET RECURSIVE sum(_)
        sum(ids) == IF ids = {} THEN 0
                    ELSE LET id == CHOOSE x \in ids : TRUE
                         IN  errorCount(id) + sum(ids \ {id})
    IN  sum(Sessions)

\* The instance as an operation finds it: nothing emitted yet.
quiet == [watcher EXCEPT !.emitted = {}]

Init ==
    /\ watcher = NewWatcher
    /\ step = NoStep
    /\ burst = [id \in Sessions |-> 0]
    /\ checksInWindow = [id \in Sessions |-> 0]
    /\ inconclusiveRun = [id \in Sessions |-> 0]
    /\ cycleEmits = [id \in Sessions |-> 0]
    /\ dm = DmIdle

\* startWatching that registers the session before fs.watch is called.
CallStartWatchingRegisterFirst(id, path, watchOk) ==
    /\ watcher' =
          IF watchOk THEN startWatching(quiet, id, path, watchOk)
          ELSE [stopWatching(quiet, id) EXCEPT
                  !.watchedSessions =
                      MapSet(@, id, [ worktreePath   |-> path,
                                      watcher        |-> FALSE,
                                      lastModified   |-> 0,
                                      pendingRefresh |-> FALSE ])]
    /\ step' = [NoStep EXCEPT
                  !.op = "startWatching", !.sessionId = id,
                  !.result = IF watchOk THEN "ok" ELSE "throw",
                  !.stopped = {id} \cap DOMAIN watcher.watchedSessions,
                  !.disarmed = {id} \cap DOMAIN watcher.refreshDebounceTimers]
    /\ burst' = [burst EXCEPT ![id] = 0]
    /\ checksInWindow' = [checksInWindow EXCEPT ![id] = 0]
    /\ cycleEmits' = [cycleEmits EXCEPT ![id] = 0]
    /\ UNCHANGED <<inconclusiveRun, dm>>

CallStartWatching(id, path, watchOk) ==
    /\ watcher' = startWatching(quiet, id, path, watchOk)
    /\ step' = [NoStep EXCEPT
                  !.op = "startWatching", !.sessionId = id,
                  !.result = IF watchOk THEN "ok" ELSE "throw",
                  !.stopped = {id} \cap DOMAIN watcher.watchedSessions,
                  !.disarmed = {id} \cap DOMAIN watcher.refreshDebounceTimers]
    /\ burst' = [burst EXCEPT ![id] = 0]
    /\ checksInWindow' = [checksInWindow EXCEPT ![id] = 0]
    /\ cycleEmits' = [cycleEmits EXCEPT ![id] = 0]
    /\ UNCHANGED <<inconclusiveRun, dm>>

CallStopWatching(id) ==
    /\ watcher' = stopWatching(quiet, id)
    /\ step' = [NoStep EXCEPT
                  !.op = "stopWatching", !.sessionId = id,
                  !.stopped = {id} \cap DOMAIN watcher.watchedSessions,
                  !.disarmed = {id} \cap DOMAIN watcher.refreshDebounceTimers]
    /\ burst' = [burst EXCEPT ![id] = 0]
    /\ checksInWindow' = [checksInWindow EXCEPT ![id] = 0]
    /\ cycleEmits' = [cycleEmits EXCEPT ![id] = 0]
    /\ UNCHANGED <<inconclusiveRun, dm>>

CallStopAll ==
    /\ watcher' = stopAll(quiet)
    /\ step' = [NoStep EXCEPT
                  !.op = "stopAll",
                  !.stopped = DOMAIN watcher.watchedSessions,
                  !.disarmed = DOMAIN watcher.refreshDebounceTimers]
    /\ burst' = [id \in Sessions |-> 0]
    /\ checksInWindow' = [id \in Sessions |-> 0]
    /\ cycleEmits' = [id \in Sessions |-> 0]
    /\ UNCHANGED <<inconclusiveRun, dm>>

\* The callback that startWatching hands to fs.watch, for an open handle.
FsEvent(id, filename) ==
    /\ watcher.openWatchers[id] > 0
    /\ watcher' = handleFileChange(quiet, id, filename)
    /\ step' = [NoStep EXCEPT !.op = "fsEvent", !.sessionId = id,
                              !.pathClass = pathClass(filename)]
    /\ LET accepted == registered(id) /\ filename \notin ignoredFileNames
       IN  /\ burst' =
                 IF ~accepted THEN burst
                 ELSE IF checksInWindow[id] > 0
                 THEN [burst EXCEPT ![id] = 1]
                 ELSE [burst EXCEPT ![id] = Min(@ + 1, MaxBurst)]
           /\ checksInWindow' =
                 IF accepted THEN [checksInWindow EXCEPT ![id] = 0]
                 ELSE checksInWindow
           /\ cycleEmits' =
                 IF accepted /\ ~pending(id)
                 THEN [cycleEmits EXCEPT ![id] = 0]
                 ELSE cycleEmits
    /\ UNCHANGED <<inconclusiveRun, dm>>

\* A gateway call of the check ended with an error other than the exit
\* code of a query.
gatewayError(gw) ==
    \E call \in DOMAIN gw : gw[call] \in {"throw", "fail"}

\* A timer of id that is due fires: its callback runs the check, whose
\* gateway calls have the outcomes gw.
TimerFires(id, gw) ==
    LET fired == [quiet EXCEPT !.liveTimeouts[id] = @ \ {0}]
        runs == pending(id)
        value == IF runs
                 THEN checkIfRefreshNeeded(
                          watcher.watchedSessions[id].worktreePath, gw).value
                 ELSE "none"
    IN  /\ 0 \in watcher.liveTimeouts[id]
        /\ value = "undefined" => totalErrors < MaxStreak
        /\ watcher' = timeoutCallback(fired, id, gw)
        /\ step' = [NoStep EXCEPT
                      !.op = "timeout", !.sessionId = id, !.result = value,
                      !.streakBefore = errorCount(id),
                      !.gatewayError = runs /\ gatewayError(gw),
                      !.delay = IF id \in DOMAIN watcher'.refreshDebounceTimers
                                THEN watcher'.refreshDebounceTimers[id] ELSE 0]
        /\ checksInWindow' =
              IF runs
              THEN [checksInWindow EXCEPT ![id] = Min(@ + 1, MaxChecks)]
              ELSE checksInWindow
        /\ inconclusiveRun' =
              IF value = "undefined"
              THEN [inconclusiveRun EXCEPT ![id] = @ + 1]
              ELSE IF value \in {"true", "false"}
              THEN [inconclusiveRun EXCEPT ![id] = 0]
              ELSE inconclusiveRun
        /\ cycleEmits' =
              IF id \in watcher'.emitted
              THEN [cycleEmits EXCEPT ![id] = Min(@ + 1, MaxChecks)]
              ELSE cycleEmits
        /\ UNCHANGED <<burst, dm>>

\* TickMs pass; a timer that is due fires before the clock moves on.
Tick ==
    /\ \A id \in Sessions : 0 \notin watcher.liveTimeouts[id]
    /\ watcher' =
         [quiet EXCEPT
            !.liveTimeouts = [id \in Sessions |-> {t - TickMs : t \in @[id]}],
            !.refreshDebounceTimers = [id \in DOMAIN @ |-> @[id] - TickMs],
            !.watchedSessions =
                [id \in DOMAIN @ |->
                    [@[id] EXCEPT !.lastModified = Min(@ + TickMs, AgeCap)]]]
    /\ step' = [NoStep EXCEPT !.op = "tick"]
    /\ LET open(id) == registered(id) /\ lastModifiedAge(id) < DEBOUNCE_MS
       IN  /\ burst' = [id \in Sessions |-> IF open(id) THEN burst[id] ELSE 0]
           /\ checksInWindow' =
                 [id \in Sessions |->
                     IF open(id) THEN checksInWindow[id] ELSE 0]
    /\ UNCHANGED <<inconclusiveRun, cycleEmits, dm>>

Next ==
    \/ \E id \in Sessions, path \in Paths, watchOk \in BOOLEAN :
          CallStartWatching(id, path, watchOk)
    \/ \E id \in Sessions : CallStopWatching(id)
    \/ CallStopAll
    \/ \E id \in Sessions, filename \in FileNames : FsEvent(id, filename)
    \/ \E id \in Sessions, gw \in GatewayOutcomes : TimerFires(id, gw)
    \/ Tick

Spec == Init /\ [][Next]_vars

(***************************************************************************)
(* Inputs of the GitDiffManager.                                           *)
(***************************************************************************)
DiffResult(diff, additions, deletions, changedFiles, beforeHash, afterHash) ==
    [ diff  |-> diff,
      stats |-> [ additions |-> additions, deletions |-> deletions,
                  filesChanged |-> Len(changedFiles) ],
      changedFiles |-> changedFiles,
      beforeHash |-> beforeHash,
      afterHash  |-> afterHash ]

SampleResults ==
    { DiffResult(<<"x", "\n">>, 3, 1, << <<"a">>, <<"b">> >>, "h0", "h1"),
      DiffResult(<<"y">>, 2, 0, << <<"b">>, <<"c">> >>, "h1", "h2"),
      DiffResult(<< >>, 0, 0, << >>, "undefined", "undefined"),
      DiffResult(<<"z", "\n", "z">>, 1, 4, << <<"a">>, <<"a">> >>,
                 "h2", "undefined"),
      DiffResult(<<"\n">>, 0, 7, << <<"c">> >>, "h3", "h3") }

DiffLists == UNION {[1..n -> SampleResults] : n \in 0..MaxDiffs}

RECURSIVE fileContent(_, _, _)
\* A file of n lines "x" that end with eol; the last line ends with eol
\* when terminated holds.
fileContent(n, eol, terminated) ==
    IF n = 0 THEN << >>
    ELSE IF n = 1 THEN <<"x">> \o (IF terminated THEN eol ELSE << >>)
    ELSE <<"x">> \o eol \o fileContent(n - 1, eol, terminated)

FileContents ==
    { fileContent(n, eol, terminated) :
         n \in {0, 1, MaxLines},
         eol \in { <<"\n">>, <<"\r", "\n">> },
         terminated \in BOOLEAN }

\* The bytes of a binary file decoded as UTF-8: replacement characters
\* (written "?") and a line feed.
BinaryContent == <<"?", "\n", "?">>

\* Text files, a file whose read is denied and a binary file.
FileStates ==
    [readable : {TRUE}, binary : {FALSE}, content : FileContents]
    \cup {[readable |-> FALSE, binary |-> FALSE, content |-> << >>]}
    \cup {[readable |-> TRUE, binary |-> TRUE, content |-> BinaryContent]}

UntrackedLists ==
    { [i \in 1..Len(fs) |->
          [ name     |-> <<"u">> \o decimal(i),
            readable |-> fs[i].readable,
            binary   |-> fs[i].binary,
            content  |-> fs[i].content ]] :
         fs \in UNION {[1..n -> FileStates] : n \in 0..MaxUntracked} }

TrackedChanges ==
    { [files |-> << >>, additions |-> 0, deletions |-> 0, diff |-> << >>] }
    \cup { [ files |-> files, additions |-> ad[1], deletions |-> ad[2],
             diff |-> <<"D", "\n">> ] :
              files \in { << <<"a">> >>, << <<"a">>, <<"b">> >> },
              ad \in { <<3, 1>>, <<1, 0>>, <<0, 2>>, <<12, 10>> } }

Commands ==
    { "rev-parse", "rev-parse-git-dir", "status", "diff", "diff-name-only",
      "diff-stat", "ls-files" }

\* The working trees on which every command succeeds, and those on which
\* one command fails (with at most one untracked file).
WorkingTrees ==
    [ head      : { <<"h", "1">> },
      tracked   : TrackedChanges,
      untracked : UntrackedLists,
      fails     : {{}} ]
    \cup
    [ head      : { <<"h", "1">> },
      tracked   : TrackedChanges,
      untracked : {u \in UntrackedLists : Len(u) <= 1},
      fails     : {{c} : c \in Commands} ]

\* The errors a git command can end with: child_process.execSync throws
\* an Error whose message holds what the command wrote to stderr.
NoError == [fails |-> FALSE, isError |-> TRUE, message |-> << >>]

GitErrors ==
    { [ fails |-> TRUE, isError |-> TRUE,
        message |-> <<"f", "a", "t", "a", "l", ":", " ", "x">> ],
      [ fails |-> TRUE, isError |-> TRUE,
        message |-> <<"x", "\n", "e", "r", "r", "o", "r", ":", " ", "y">> ],
      [ fails |-> TRUE, isError |-> TRUE,
        message |-> <<"E", "N", "O", "B", "U", "F", "S">> ] }

\* The shapes of a commit: subject, body and touched files.
CommitShapes ==
    { [ subject |-> <<"s">>, body |-> << >>, files |-> << >> ],
      [ subject |-> <<"s">>, body |-> <<"b", "\n", "c">>,
        files |-> << [path |-> <<"a">>, binary |-> FALSE,
                      added |-> 3, deleted |-> 1] >> ],
      [ subject |-> <<"s", " ", "t">>, body |-> <<"b">>,
        files |-> << [path |-> <<"a">>, binary |-> FALSE,
                      added |-> 12, deleted |-> 0],
                     [path |-> <<"b">>, binary |-> TRUE,
                      added |-> 0, deleted |-> 0] >> ],
      [ subject |-> <<"s", "|", "t">>, body |-> << >>,
        files |-> << [path |-> <<"a">>, binary |-> FALSE,
                      added |-> 1, deleted |-> 2] >> ],
      [ subject |-> <<"s">>, body |-> << >>,
        files |-> << [path |-> <<"a", "|", "b">>, binary |-> FALSE,
                      added |-> 1, deleted |-> 0] >> ] }

\* The k-th newest commit of a repository.
commitHash(k) == <<"c">> \o decimal(k)

CommitLists ==
    { [ k \in 1..Len(shapes) |->
          [ hash    |-> commitHash(k),
            subject |-> shapes[k].subject,
            body    |-> shapes[k].body,
            date    |-> <<"d", "1">>,
            author  |-> <<"A">>,
            files   |-> shapes[k].files ] ] :
         shapes \in UNION {[1..n -> CommitShapes] : n \in 0..MaxCommits} }

HistoryRepos ==
    [ commits   : CommitLists,
      logError  : {NoError} \cup GitErrors,
      fullError : {NoError} \cup GitErrors,
      showError : {NoError} ]

ShowRepos ==
    [ commits   : CommitLists,
      logError  : {NoError},
      fullError : {NoError},
      showError : {NoError} \cup GitErrors ]

Limits == 1..(MaxCommits + 1)

\* The outputs of a --stat command handed to parseDiffStats: file lines or
\* none, a summary line where each of the three groups is there (with its
\* number) or not (-1), and what follows the summary.
StatShapes ==
    [ fileLines : { << >>, <<" ", "a", " ", "|", " ", "3", " ", "+", "-", "\n",
                            " ", "b", " ", "|", " ", "1", " ", "+", "\n">> },
      files     : {-1, 1, 3},
      additions : {-1, 1, 2, 45},
      deletions : {-1, 1, 12},
      after     : { << >>, <<"\n">>, <<"\n", "\n">>, <<"\n", " ", "\n">> } ]

statGroup(n, word, mark) ==
    IF n < 0 THEN << >> ELSE decimal(n) \o plural(n, word) \o mark

statOutput(shape) ==
    LET groups ==
            filterBoolean(
               << statGroup(shape.files, <<" ", "f", "i", "l", "e">>,
                            <<" ", "c", "h", "a", "n", "g", "e", "d">>),
                  statGroup(shape.additions,
                            <<" ", "i", "n", "s", "e", "r", "t", "i", "o", "n">>,
                            <<"(", "+", ")">>),
                  statGroup(shape.deletions,
                            <<" ", "d", "e", "l", "e", "t", "i", "o", "n">>,
                            <<"(", "-", ")">>) >>)
        summary == IF Len(groups) = 0 THEN << >>
                   ELSE <<" ">> \o join(groups, <<",", " ">>)
    IN  shape.fileLines \o summary \o shape.after

(***************************************************************************)
(* Calls of the GitDiffManager. Its methods keep no state between calls,   *)
(* so a behaviour is one call.                                             *)
(***************************************************************************)
CallCombineDiffs(diffs) ==
    /\ dm.op = "none"
    /\ dm' = [op |-> "combineDiffs", input |-> diffs,
              output |-> combineDiffs(diffs)]
    /\ UNCHANGED watcherVars

CallCaptureWorkingDirectoryDiff(tree) ==
    /\ dm.op = "none"
    /\ dm' = [op |-> "captureWorkingDirectoryDiff", input |-> tree,
              output |-> captureWorkingDirectoryDiff(tree)]
    /\ UNCHANGED watcherVars

CallGetCommitHistory(repo, limit) ==
    /\ dm.op = "none"
    /\ dm' = [op |-> "getCommitHistory", input |-> repo, limit |-> limit,
              output |-> getCommitHistory(repo, limit)]
    /\ UNCHANGED watcherVars

CallGetCommitDiff(repo, hash) ==
    /\ dm.op = "none"
    /\ dm' = [op |-> "getCommitDiff", input |-> repo, commitHash |-> hash,
              output |-> getCommitDiff(repo, hash)]
    /\ UNCHANGED watcherVars

CallParseDiffStats(shape) ==
    /\ dm.op = "none"
    /\ dm' = [op |-> "parseDiffStats", shape |-> shape,
              input |-> statOutput(shape),
              output |-> parseDiffStats(statOutput(shape))]
    /\ UNCHANGED watcherVars

NextDiff ==
    \/ \E diffs \in DiffLists : CallCombineDiffs(diffs)
    \/ \E tree \in WorkingTrees : CallCaptureWorkingDirectoryDiff(tree)
    \/ \E repo \in HistoryRepos, limit \in Limits :
          CallGetCommitHistory(repo, limit)
    \/ \E repo \in ShowRepos, k \in 1..(MaxCommits + 1) :
          CallGetCommitDiff(repo, commitHash(k))
    \/ \E shape \in StatShapes : CallParseDiffStats(shape)

SpecDiff == Init /\ [][NextDiff]_vars

TypeOK ==
    /\ DOMAIN watcher.watchedSessions \subseteq Sessions
    /\ DOMAIN watcher.refreshDebounceTimers \subseteq Sessions
    /\ \A id \in Sessions : watcher.openWatchers[id] \in 0..2

(***************************************************************************)
(* Properties of the watcher.                                              *)
(***************************************************************************)
\* C1: every session id has at most one open OS watch handle, a registered
\* session has exactly one, and after a successful startWatching(id, path),
\* also when id was already watched, exactly one handle is open for id.
C1_AtMostOneHandle ==
    /\ \A id \in Sessions :
          /\ watcher.openWatchers[id] <= 1
          /\ registered(id) => watcher.openWatchers[id] = 1
    /\ (step.op = "startWatching" /\ step.result = "ok")
          => /\ registered(step.sessionId)
             /\ watcher.openWatchers[step.sessionId] = 1

\* startWatching has replaced a session that was being watched.
C1_Witness ==
    /\ step.op = "startWatching"
    /\ step.result = "ok"
    /\ step.stopped = {step.sessionId}
    /\ watcher.openWatchers[step.sessionId] = 1

\* C2: after the non-ignored events of a burst no check runs until 1.5 s
\* have passed since the last of them; the timer is then due, and when the
\* clock moves on exactly one check has run.
C2_OneCheckPerBurst ==
    \A id \in Sessions :
       (registered(id) /\ burst[id] >= 1) =>
          /\ lastModifiedAge(id) < DEBOUNCE_MS =>
                /\ checksInWindow[id] = 0
                /\ watcher.liveTimeouts[id] =
                      {DEBOUNCE_MS - lastModifiedAge(id)}
          /\ lastModifiedAge(id) = DEBOUNCE_MS =>
                \/ /\ checksInWindow[id] = 0
                   /\ watcher.liveTimeouts[id] = {0}
                \/ /\ checksInWindow[id] = 1
                   /\ 0 \notin watcher.liveTimeouts[id]
          /\ lastModifiedAge(id) <= DEBOUNCE_MS

\* The one check of a burst of at least two events has just run.
C2_Witness ==
    /\ step.op = "timeout"
    /\ step.result # "none"
    /\ registered(step.sessionId)
    /\ burst[step.sessionId] >= 2
    /\ checksInWindow[step.sessionId] = 1
    /\ lastModifiedAge(step.sessionId) = DEBOUNCE_MS

\* The delay the claim gives for the k-th consecutive inconclusive check.
expectedBackoff(k) ==
    CASE k = 1 -> 1000
      [] k = 2 -> 2000
      [] k = 3 -> 4000
      [] k = 4 -> 8000
      [] k = 5 -> 16000
      [] OTHER -> 30000

C6_StoppedSessionIsSilent ==
    \A id \in Sessions :
       ~registered(id) =>
          /\ watcher.openWatchers[id] = 0
          /\ ~armed(id)
          /\ watcher.liveTimeouts[id] = {}
          /\ id \notin watcher.emitted
          /\ ~(step.op = "timeout" /\ step.sessionId = id)

\* stopWatching has stopped a session that waited in Backoff.
C6_Witness ==
    /\ step.op = "stopWatching"
    /\ step.stopped = {step.sessionId}
    /\ step.disarmed = {step.sessionId}
    /\ errorCount(step.sessionId) >= 1
    /\ ~registered(step.sessionId)

\* C7: after stopAll the registry is empty, getStats() reports no session,
\* every handle is closed and no timer is armed.
C7_StopAllEmptiesRegistry ==
    step.op = "stopAll" =>
        /\ getStats(watcher) =
              [totalWatched |-> 0, sessionsNeedingRefresh |-> 0]
        /\ DOMAIN watcher.watchedSessions = {}
        /\ DOMAIN watcher.refreshDebounceTimers = {}
        /\ \A id \in Sessions :
              /\ watcher.openWatchers[id] = 0
              /\ watcher.liveTimeouts[id] = {}

\* stopAll has stopped every session, one of them in Backoff and one not.
C7_Witness ==
    /\ step.op = "stopAll"
    /\ step.stopped = Sessions
    /\ step.disarmed # {}
    /\ \E id \in Sessions : errorCount(id) >= 1
    /\ \E id \in Sessions : errorCount(id) = 0

\* C8: an event whose path matches an ignore pattern changes nothing of the
\* watcher: sessions (pendingRefresh, lastModified), failure counts and
\* timers are as before, and nothing is emitted.
C8_IgnoredEventChangesNothing ==
    [][(step'.op = "fsEvent" /\ step'.pathClass = "ignorable")
          => watcher' = [watcher EXCEPT !.emitted = {}]]_vars

\* An ignored event has arrived for a session that waits in Backoff.
C8_Witness ==
    /\ step.op = "fsEvent"
    /\ step.pathClass = "ignorable"
    /\ pending(step.sessionId)
    /\ errorCount(step.sessionId) >= 1

(***************************************************************************)
(* Properties of the GitDiffManager.                                       *)
(***************************************************************************)
elements(seq) == {seq[i] : i \in 1..Len(seq)}

RECURSIVE total(_, _)
\* The sum of the numbers seq[i] for the indices i of the set.
total(seq, indices) ==
    IF indices = {} THEN 0
    ELSE LET i == CHOOSE x \in indices : TRUE
         IN  seq[i] + total(seq, indices \ {i})

\* Where the text of result i starts in the combined text, less one.
offsetOf(diffs, i) ==
    total([k \in 1..Len(diffs) |-> Len(diffs[k].diff) + 2], 1..(i - 1))

\* C9: the result of combineDiffs has the sums of the additions and of the
\* deletions, the duplicate-free union of the changed files with its size
\* as filesChanged, the texts joined by a blank line, the beforeHash of the
\* first result and the afterHash of the last.
C9_CombineDiffs ==
    dm.op = "combineDiffs" =>
        LET in == dm.input
            out == dm.output
            n == Len(in)
        IN  /\ out.stats.additions =
                  total([i \in 1..n |-> in[i].stats.additions], 1..n)
            /\ out.stats.deletions =
                  total([i \in 1..n |-> in[i].stats.deletions], 1..n)
            /\ elements(out.changedFiles) =
                  UNION {elements(in[i].changedFiles) : i \in 1..n}
            /\ Cardinality(elements(out.changedFiles)) = Len(out.changedFiles)
            /\ out.stats.filesChanged =
                  Cardinality(UNION {elements(in[i].changedFiles) : i \in 1..n})
            /\ Len(out.diff) =
                  IF n = 0 THEN 0 ELSE offsetOf(in, n + 1) - 2
            /\ \A i \in 1..n :
                  /\ SubSeq(out.diff, offsetOf(in, i) + 1,
                            offsetOf(in, i) + Len(in[i].diff)) = in[i].diff
                  /\ i < n =>
                        SubSeq(out.diff, offsetOf(in, i + 1) - 1,
                               offsetOf(in, i + 1)) = <<"\n", "\n">>
            /\ n > 0 => /\ out.beforeHash = in[1].beforeHash
                        /\ out.afterHash = in[n].afterHash

\* Three results, two of which name the same file, have been combined.
C9_Witness ==
    /\ dm.op = "combineDiffs"
    /\ Len(dm.input) = 3
    /\ \E i, j \in 1..3 :
          /\ i < j
          /\ elements(dm.input[i].changedFiles)
                \cap elements(dm.input[j].changedFiles) # {}
    /\ dm.output.stats.filesChanged = 3
    /\ dm.output.stats.additions = 5

\* The lines of a text file: its line ends, and the last line when it has
\* no line end.
linesOf(content) ==
    Cardinality({i \in 1..Len(content) : content[i] = "\n"})
    + (IF Len(content) > 0 /\ content[Len(content)] # "\n" THEN 1 ELSE 0)

\* C10: with tracked changes of a additions and d deletions over f files
\* and u readable untracked text files of n_1 .. n_u lines, and no failing
\* command, the stats of captureWorkingDirectoryDiff are
\* {a + n_1 + ... + n_u, d, f + u}.
C10_WorkingTreeStats ==
    ( /\ dm.op = "captureWorkingDirectoryDiff"
      /\ dm.input.fails = {}
      /\ \A i \in 1..Len(dm.input.untracked) :
            dm.input.untracked[i].readable /\ ~dm.input.untracked[i].binary )
    => LET tree == dm.input
           u == Len(tree.untracked)
       IN  dm.output.stats =
              [ additions |-> tree.tracked.additions
                              + total([i \in 1..u |->
                                          linesOf(tree.untracked[i].content)],
                                      1..u),
                deletions |-> tree.tracked.deletions,
                filesChanged |-> Len(tree.tracked.files) + u ]

(***************************************************************************)
(* Properties of the commit history and of the diff of one commit.         *)
(***************************************************************************)
\* C11: when both commands succeed, getCommitHistory(root, limit, exclude)
\* returns exactly one record for each of the newest limit branch-unique
\* commits, newest first, and the message of every record, not only of the
\* first, is the full message that the NUL-delimited stream carries for
\* the hash of the record.
C11_HistoryRecords ==
    (/\ dm.op = "getCommitHistory"
     /\ ~dm.input.logError.fails
     /\ ~dm.input.fullError.fails)
    => LET expected == listed(dm.input, dm.limit)
           commits == dm.output.commits
       IN  /\ ~dm.output.thrown
           /\ Len(commits) = Len(expected)
           /\ \A k \in 1..Len(commits) :
                 /\ commits[k].hash = expected[k].hash
                 /\ commits[k].message = trim(fullMessage(expected[k]))

\* C12: when the git show that fetches the diff of the commit fails
\* (unknown revision, not a repository), getCommitDiff raises an error; it
\* does not return an empty result as if the call had succeeded.
C12_RevisionDiffSurfacesError ==
    (dm.op = "getCommitDiff" /\ gitShowFails(dm.input, dm.commitHash))
    => dm.output.thrown

hasMarker(message) ==
    \/ includes(message, <<"f", "a", "t", "a", "l", ":">>)
    \/ includes(message, <<"e", "r", "r", "o", "r", ":">>)

\* C13: getCommitHistory raises, with the message of the failure, when the
\* first git log fails with a message that carries 'fatal:' or 'error:';
\* it returns the empty sequence without raising for every other failure
\* of that call and when the call lists nothing; when only the second git
\* log fails, it does not raise and returns one record for every listed
\* commit, with the subject line of the commit as message.
C13_HistoryFailures ==
    dm.op = "getCommitHistory" =>
       LET logError == dm.input.logError
           expected == listed(dm.input, dm.limit)
           commits == dm.output.commits
       IN  /\ (logError.fails /\ hasMarker(logError.message))
                 => /\ dm.output.thrown
                    /\ includes(dm.output.message, logError.message)
           /\ (logError.fails /\ ~hasMarker(logError.message))
                 => (~dm.output.thrown /\ commits = << >>)
           /\ (~logError.fails /\ Len(expected) = 0)
                 => (~dm.output.thrown /\ commits = << >>)
           /\ (~logError.fails /\ dm.input.fullError.fails)
                 => /\ ~dm.output.thrown
                    /\ Len(commits) = Len(expected)
                    /\ \A k \in 1..Len(commits) :
                          /\ commits[k].hash = expected[k].hash
                          /\ commits[k].message = expected[k].subject

\* C14: parseDiffStats returns the three numbers of the last non-empty
\* line of its input, 0 for a group the line does not have, also when file
\* lines come before the summary and blank lines after it: the summary of
\* 3 files, 45 insertions and 12 deletions gives {3, 45, 12}, the empty
\* text {0, 0, 0}, '1 file changed, 2 insertions(+)' gives {1, 2, 0}.
C14_ParseStatSummary ==
    dm.op = "parseDiffStats" =>
       LET count(n) == IF n < 0 THEN 0 ELSE n
       IN  dm.output = [ filesChanged |-> count(dm.shape.files),
                         additions    |-> count(dm.shape.additions),
                         deletions    |-> count(dm.shape.deletions) ]

C14_Witness ==
    /\ dm.op = "parseDiffStats"
    /\ dm.shape.fileLines # << >>
    /\ dm.shape.after = <<"\n", "\n">>
    /\ dm.output = [filesChanged |-> 3, additions |-> 45, deletions |-> 12]

(***************************************************************************)
(* The unified diff parsers of the frontend: parseUnifiedDiff of the diff  *)
(* viewer and parseFilesFromDiff of the diff parser utility.               *)
(***************************************************************************)
\* The characters '.' does not match and before which '$' of a multiline
\* pattern matches.
LineTerminators == {"\n", "\r"}

DiffGit == <<"d", "i", "f", "f", " ", "-", "-", "g", "i", "t">>

\* The positions of s where lit starts.
occurrences(s, lit) ==
    {i \in 1..(Len(s) - Len(lit) + 1) : SubSeq(s, i, i + Len(lit) - 1) = lit}

\* s.match(/diff --git[\s\S]*?(?=diff --git|$)/g): the pieces of s that
\* start where 'diff --git' occurs and end before its next occurrence or
\* with s; << >> stands for null (no occurrence).
RECURSIVE piecesFrom(_, _)
piecesFrom(s, starts) ==
    IF starts = {} THEN << >>
    ELSE LET first == CHOOSE i \in starts : \A j \in starts : i <= j
             later == starts \ {first}
             stop == IF later = {} THEN Len(s)
                     ELSE (CHOOSE i \in later : \A j \in later : i <= j) - 1
         IN  <<SubSeq(s, first, stop)>> \o piecesFrom(s, later)

fileMatches(s) == piecesFrom(s, occurrences(s, DiffGit))

\* The end of the run of characters matched by '.' that starts at i
\* (i - 1 when the run is empty).
dotRunEnd(s, i) ==
    LET stops == {j \in i..Len(s) : s[j] \in LineTerminators}
    IN  IF stops = {} THEN Len(s)
        ELSE (CHOOSE j \in stops : \A k \in stops : j <= k) - 1

\* fileContent.match(/diff --git a\/(.*?) b\/(.*?)(?:\n|$)/), and when that
\* fails fileContent.match(/diff --git a\/(.*?) b\/(.*)/). the section
\* holds 'diff --git' at its start only. Both patterns take the text
\* between 'diff --git a/' and the first ' b/' of the line as the first
\* group and the rest of the line as the second; the first pattern fails
\* on a line that ends with a carriage return, the second does not.
fileNameMatch(section) ==
    LET head == DiffGit \o <<" ", "a", "/">>
        lineEnd == dotRunEnd(section, 1)
        seps == {i \in (Len(head) + 1)..(lineEnd - 2) :
                    SubSeq(section, i, i + 2) = <<" ", "b", "/">>}
    IN  IF ~startsWith(section, head) \/ seps = {}
        THEN [matched |-> FALSE, old |-> << >>, new |-> << >>]
        ELSE LET sep == CHOOSE i \in seps : \A j \in seps : i <= j
             IN  [ matched |-> TRUE,
                   old |-> SubSeq(section, Len(head) + 1, sep - 1),
                   new |-> SubSeq(section, sep + 3, lineEnd) ]

\* The change type that the markers of a section give.
changeType(section) ==
    IF includes(section, <<"n", "e", "w", " ", "f", "i", "l", "e", " ", "m", "o", "d", "e">>)
    THEN "added"
    ELSE IF includes(section, <<"d", "e", "l", "e", "t", "e", "d", " ", "f", "i", "l", "e", " ", "m", "o", "d", "e">>)
    THEN "deleted"
    ELSE IF /\ includes(section, <<"r", "e", "n", "a", "m", "e", " ", "f", "r", "o", "m">>)
            /\ includes(section, <<"r", "e", "n", "a", "m", "e", " ", "t", "o">>)
    THEN "renamed"
    ELSE "modified"

BinaryFiles == <<"B", "i", "n", "a", "r", "y", " ", "f", "i", "l", "e", "s">>

GitBinaryPatch ==
    <<"G", "I", "T", " ", "b", "i", "n", "a", "r", "y", " ", "p", "a", "t", "c", "h">>

\* lines.findIndex(line => line.startsWith('@@')), counted from 1; 0 when
\* no line starts so.
hunkStart(lines) ==
    LET at == {i \in 1..Len(lines) : startsWith(lines[i], <<"@", "@">>)}
    IN  IF at = {} THEN 0 ELSE CHOOSE i \in at : \A j \in at : i <= j

\* The walk of parseUnifiedDiff over the lines from the first hunk marker
\* on: the lines of the old and of the new content and the two counts.
RECURSIVE walkLines(_, _, _)
walkLines(lines, i, acc) ==
    IF i > Len(lines) THEN acc
    ELSE LET line == lines[i]
             rest == SubSeq(line, 2, Len(line))
         IN  walkLines(lines, i + 1,
                IF startsWith(line, <<"@", "@">>) THEN acc
                ELSE IF startsWith(line, <<"-">>)
                THEN [acc EXCEPT !.oldLines = Append(@, rest),
                                 !.deletions = @ + 1]
                ELSE IF startsWith(line, <<"+">>)
                THEN [acc EXCEPT !.newLines = Append(@, rest),
                                 !.additions = @ + 1]
                ELSE IF startsWith(line, <<" ">>)
                THEN [acc EXCEPT !.oldLines = Append(@, rest),
                                 !.newLines = Append(@, rest)]
                ELSE IF startsWith(line, <<"\\">>) THEN acc
                ELSE IF line = << >>
                THEN [acc EXCEPT !.oldLines = Append(@, << >>),
                                 !.newLines = Append(@, << >>)]
                ELSE acc)

\* The loop of parseUnifiedDiff over the same lines for a section that is
\* too large: the two counts only.
RECURSIVE countLines(_, _, _)
countLines(lines, i, acc) ==
    IF i > Len(lines) THEN acc
    ELSE LET line == lines[i]
         IN  countLines(lines, i + 1,
                IF startsWith(line, <<"@", "@">>) THEN acc
                ELSE IF startsWith(line, <<"-">>)
                THEN [acc EXCEPT !.deletions = @ + 1]
                ELSE IF startsWith(line, <<"+">>)
                THEN [acc EXCEPT !.additions = @ + 1]
                ELSE acc)

\* The entry parseUnifiedDiff pushes for one section, as a sequence of
\* none or one.
fileDiffOf(section, maxBytes) ==
    LET names == fileNameMatch(section)
        isBinary == \/ includes(section, BinaryFiles)
                    \/ includes(section, GitBinaryPatch)
        approxSize == Len(section)
        tooLarge == approxSize > maxBytes
        type == changeType(section)
        lines == split(section, "\n")
        diffStartIndex == hunkStart(lines)
        walked == walkLines(lines, diffStartIndex,
                            [ oldLines |-> << >>, newLines |-> << >>,
                              additions |-> 0, deletions |-> 0 ])
        counted == countLines(lines, diffStartIndex,
                              [additions |-> 0, deletions |-> 0])
        entry(binary, large, additions, deletions, oldValue, newValue) ==
            [ path |-> names.new, oldPath |-> names.old,
              oldValue |-> oldValue, newValue |-> newValue,
              type |-> type, isBinary |-> binary,
              additions |-> additions, deletions |-> deletions,
              tooLarge |-> large, approxSize |-> approxSize ]
    IN  IF ~names.matched THEN << >>
        ELSE IF isBinary THEN <<entry(TRUE, FALSE, 0, 0, << >>, << >>)>>
        ELSE IF diffStartIndex = 0
        THEN <<entry(FALSE, FALSE, 0, 0, << >>, << >>)>>
        ELSE IF tooLarge
        THEN <<entry(FALSE, TRUE, counted.additions, counted.deletions,
                     << >>, << >>)>>
        ELSE <<entry(FALSE, FALSE, walked.additions, walked.deletions,
                     IF type = "added" THEN << >>
                     ELSE join(walked.oldLines, <<"\n">>),
                     IF type = "deleted" THEN << >>
                     ELSE join(walked.newLines, <<"\n">>))>>

RECURSIVE fileDiffsOf(_, _)
fileDiffsOf(matches, maxBytes) ==
    IF Len(matches) = 0 THEN << >>
    ELSE fileDiffOf(Head(matches), maxBytes)
         \o fileDiffsOf(Tail(matches), maxBytes)

\* parseUnifiedDiff(diff, maxBytes)
parseUnifiedDiff(diff, maxBytes) ==
    IF Len(diff) = 0 \/ Len(trim(diff)) = 0 THEN << >>
    ELSE fileDiffsOf(fileMatches(diff), maxBytes)

\* The order of the alternatives a backtracking matcher tries: choice by
\* choice, the earlier choice deciding.
RECURSIVE triedBefore(_, _)
triedBefore(x, y) ==
    /\ Len(x) > 0
    /\ \/ Head(x) < Head(y)
       \/ (Head(x) = Head(y) /\ triedBefore(Tail(x), Tail(y)))

\* The length of the run of whitespace that starts at position i.
spaceRun(s, i) ==
    LET stops == {j \in i..Len(s) : s[j] \notin Whitespace}
    IN  IF stops = {} THEN Len(s) - i + 1
        ELSE (CHOOSE j \in stops : \A k \in stops : j <= k) - i

litAt(s, i, lit) ==
    /\ i + Len(lit) - 1 <= Len(s)
    /\ SubSeq(s, i, i + Len(lit) - 1) = lit

\* The match of one pattern of parseFileNameFromDiff against a section
\* (which holds 'diff --git' at its start only, so '^' matches there):
\*   ^diff --git<gap><pre1>(.+?)<post1><gap><pre2>(.+?)<post2>$
\* where the gap is one space, or \s+ when wide, and pre1, post1, pre2 and
\* post2 are tried in the order given. A wider gap is tried before a
\* narrower one and a shorter group before a longer one.
matchHeader(section, wide, pre1s, post1s, pre2s, post2s) ==
    LET s == section
        from == Len(DiffGit) + 1
        gaps(i) == IF wide THEN 1..spaceRun(s, i)
                   ELSE IF litAt(s, i, <<" ">>) THEN {1} ELSE {}
        found ==
            UNION { UNION { UNION { UNION { UNION { UNION {
               LET n1 == from + w1
                   g1 == n1 + Len(pre1s[a])
                   e1 == g1 + len1
                   n2 == e1 + Len(post1s[b]) + w2
                   g2 == n2 + Len(pre2s[c])
               IN  { [ order |-> <<0 - w1, a, len1, b, 0 - w2, c,
                                    dotRunEnd(s, g2) - g2 + 1 - Len(post2s[d]),
                                    d>>,
                       old |-> SubSeq(s, g1, e1 - 1),
                       new |-> SubSeq(s, g2, dotRunEnd(s, g2) - Len(post2s[d])) ] :
                     d \in {d \in 1..Len(post2s) :
                              /\ dotRunEnd(s, g2) - g2 + 1 - Len(post2s[d]) >= 1
                              /\ litAt(s, dotRunEnd(s, g2) - Len(post2s[d]) + 1,
                                       post2s[d])} } :
               c \in {c \in 1..Len(pre2s) :
                        litAt(s, from + w1 + Len(pre1s[a]) + len1
                                 + Len(post1s[b]) + w2, pre2s[c])} } :
               w2 \in gaps(from + w1 + Len(pre1s[a]) + len1 + Len(post1s[b])) } :
               b \in {b \in 1..Len(post1s) :
                        litAt(s, from + w1 + Len(pre1s[a]) + len1, post1s[b])} } :
               len1 \in 1..(dotRunEnd(s, from + w1 + Len(pre1s[a]))
                            - (from + w1 + Len(pre1s[a])) + 1) } :
               a \in {a \in 1..Len(pre1s) : litAt(s, from + w1, pre1s[a])} } :
               w1 \in gaps(from) }
    IN  IF found = {} THEN [matched |-> FALSE, old |-> << >>, new |-> << >>]
        ELSE LET m == CHOOSE x \in found :
                         \A y \in found : x = y \/ triedBefore(x.order, y.order)
             IN  [matched |-> TRUE, old |-> m.old, new |-> m.new]

Quotes == {"\"", "'"}

\* normalized.replace(/\\(.)/g, '$1') followed by replace(/\\/g, '/')
RECURSIVE unescape(_)
unescape(s) ==
    IF Len(s) = 0 THEN << >>
    ELSE IF s[1] = "\\" /\ Len(s) >= 2 /\ s[2] \notin LineTerminators
    THEN <<IF s[2] = "\\" THEN "/" ELSE s[2]>> \o unescape(SubSeq(s, 3, Len(s)))
    ELSE (IF s[1] = "\\" THEN <<"/">> ELSE <<s[1]>>) \o unescape(Tail(s))

normalizeFilePath(filePath) ==
    LET unquotedHead == IF Len(filePath) > 0 /\ filePath[1] \in Quotes
                        THEN Tail(filePath) ELSE filePath
        unquoted == IF Len(unquotedHead) > 0
                       /\ unquotedHead[Len(unquotedHead)] \in Quotes
                    THEN SubSeq(unquotedHead, 1, Len(unquotedHead) - 1)
                    ELSE unquotedHead
    IN  unescape(unquoted)

\* The patterns of parseFileNameFromDiff in the order they are tried; the
\* last is the fallback.
HeaderPatterns ==
    LET a == <<"a", "/">>
        b == <<"b", "/">>
        q == <<"\"">>
        none == << >>
    IN  << [wide |-> FALSE, pre1 |-> <<a>>, post1 |-> <<none>>,
            pre2 |-> <<b>>, post2 |-> <<none>>],
           [wide |-> FALSE, pre1 |-> <<q \o a>>, post1 |-> <<q>>,
            pre2 |-> <<q \o b>>, post2 |-> <<q>>],
           [wide |-> FALSE, pre1 |-> <<q \o a, a>>, post1 |-> <<q, none>>,
            pre2 |-> <<q \o b, b>>, post2 |-> <<q, none>>],
           [wide |-> FALSE, pre1 |-> <<none>>, post1 |-> <<none>>,
            pre2 |-> <<none>>, post2 |-> <<none>>],
           [wide |-> TRUE, pre1 |-> <<q \o a, a, none>>, post1 |-> <<q, none>>,
            pre2 |-> <<q \o b, b, none>>, post2 |-> <<q, none>>] >>

RECURSIVE firstHeaderMatch(_, _)
firstHeaderMatch(section, k) ==
    IF k > Len(HeaderPatterns)
    THEN [matched |-> FALSE, old |-> << >>, new |-> << >>]
    ELSE LET p == HeaderPatterns[k]
             m == matchHeader(section, p.wide, p.pre1, p.post1, p.pre2, p.post2)
         IN  IF m.matched THEN m ELSE firstHeaderMatch(section, k + 1)

\* parseFileNameFromDiff(diffContent); matched is FALSE for null.
parseFileNameFromDiff(section) ==
    LET m == firstHeaderMatch(section, 1)
    IN  [ matched |-> m.matched,
          oldPath |-> normalizeFilePath(m.old),
          newPath |-> normalizeFilePath(m.new) ]

\* (section.match(/^\+[^+]/gm) || []).length for the character '+', and
\* the same for '-': the lines that start with the character and go on
\* with another one (a line feed counts as one).
countMarked(section, ch) ==
    Cardinality({ i \in 1..(Len(section) - 1) :
                    /\ i = 1 \/ section[i - 1] \in LineTerminators
                    /\ section[i] = ch
                    /\ section[i + 1] # ch })

\* The entry parseFilesFromDiff pushes for one section, as a sequence of
\* none or one.
parsedFileOf(section) ==
    LET parsedPaths == parseFileNameFromDiff(section)
        isBinary == \/ includes(section, BinaryFiles)
                    \/ includes(section, GitBinaryPatch)
                    \/ includes(section, <<"d", "i", "f", "f", "e", "r", "\n">>)
        finalPath == IF Len(parsedPaths.newPath) > 0 THEN parsedPaths.newPath
                     ELSE parsedPaths.oldPath
    IN  IF ~parsedPaths.matched \/ Len(finalPath) = 0 THEN << >>
        ELSE << [ path |-> finalPath,
                  oldPath |-> parsedPaths.oldPath,
                  type |-> changeType(section),
                  additions |-> IF isBinary THEN 0
                                ELSE countMarked(section, "+"),
                  deletions |-> IF isBinary THEN 0
                                ELSE countMarked(section, "-"),
                  isBinary |-> isBinary ] >>

RECURSIVE parsedFilesOf(_)
parsedFilesOf(matches) ==
    IF Len(matches) = 0 THEN << >>
    ELSE parsedFileOf(Head(matches)) \o parsedFilesOf(Tail(matches))

\* parseFilesFromDiff(diffContent)
parseFilesFromDiff(diffContent) ==
    IF Len(diffContent) = 0 \/ Len(trim(diffContent)) = 0 THEN << >>
    ELSE parsedFilesOf(fileMatches(diffContent))

(***************************************************************************)
(* Inputs of the parsers: diff texts built from sections.                  *)
(***************************************************************************)
\* Sections of one diff text and content lines of one section.
MaxSections == 2

MaxContentLines == 2

\* The lines after the hunk marker: added, removed and context lines with
\* their content, and the no-newline note.
ContentLines ==
    [ kind : {"added"},
      content : { <<"x">>, << >>, <<"+", "x">>,
                  DiffGit \o <<" ", "a", "/", "y", " ", "b", "/", "y">> } ]
    \cup [ kind : {"removed"}, content : { <<"x">>, << >>, <<"-", "x">> } ]
    \cup [ kind : {"context"}, content : { <<"x">> } ]
    \cup [ kind : {"note"}, content : { <<" ", "N">> } ]

lineMark(kind) ==
    CASE kind = "added" -> "+"
      [] kind = "removed" -> "-"
      [] kind = "context" -> " "
      [] kind = "note" -> "\\"

\* The forms of a section: a text section with one hunk, a section with no
\* hunk (a change of mode), a binary section, a section whose header lacks
\* a path, a rename (old and new path differ) and a section whose header
\* has an empty new path.
SectionShapes ==
    [ form : {"text"}, marker : {"none", "new"},
      lines : UNION {[1..n -> ContentLines] : n \in 0..MaxContentLines} ]
    \cup [ form : {"nohunk", "binary", "malformed", "renamed", "nonew"},
           marker : {"none"}, lines : {<< >>} ]

\* The shapes that make up the texts of more than one section.
BasicShapes ==
    { s \in SectionShapes :
        \/ s.form # "text"
        \/ /\ s.marker = "none"
           /\ s.lines \in { << [kind |-> "added", content |-> <<"x">>] >>,
                             << [kind |-> "removed", content |-> <<"x">>],
                                [kind |-> "context", content |-> <<"x">>] >> } }

SectionLists ==
    {<< >>} \cup {<<s>> : s \in SectionShapes}
    \cup UNION {[1..n -> BasicShapes] : n \in 2..MaxSections}

\* The path of the k-th section of a text.
sectionPath(k) == <<"f">> \o decimal(k)

RECURSIVE contentText(_)
contentText(lines) ==
    IF Len(lines) = 0 THEN << >>
    ELSE <<lineMark(Head(lines).kind)>> \o Head(lines).content \o <<"\n">>
         \o contentText(Tail(lines))

\* The old and the new path in the header of the k-th section.
sectionOldPath(shape, k) ==
    IF shape.form = "renamed" THEN <<"o">> \o decimal(k) ELSE sectionPath(k)

sectionNewPath(shape, k) ==
    IF shape.form = "nonew" THEN << >> ELSE sectionPath(k)

sectionText(shape, k) ==
    LET p == sectionPath(k)
        header == DiffGit \o <<" ", "a", "/">> \o sectionOldPath(shape, k)
                  \o <<" ", "b", "/">> \o sectionNewPath(shape, k)
                  \o <<"\n">>
    IN  CASE shape.form = "malformed" ->
               DiffGit \o <<" ">> \o p \o <<"\n">>
               \o <<"@", "@", " ", "-", "1", " ", "+", "1", " ", "@", "@", "\n", "+", "x", "\n">>
          [] shape.form = "binary" ->
               header \o BinaryFiles \o <<" ", "a", "/">> \o p
               \o <<" ", "a", "n", "d", " ", "b", "/">> \o p
               \o <<" ", "d", "i", "f", "f", "e", "r", "\n">>
          [] shape.form = "renamed" ->
               header
               \o <<"r", "e", "n", "a", "m", "e", " ", "f", "r", "o", "m", " ">>
               \o sectionOldPath(shape, k) \o <<"\n">>
               \o <<"r", "e", "n", "a", "m", "e", " ", "t", "o", " ">>
               \o p \o <<"\n">>
          [] shape.form = "nonew" ->
               header
               \o <<"-", "-", "-", " ", "a", "/">> \o p \o <<"\n">>
               \o <<"@", "@", " ", "-", "1", " ", "+", "0", ",", "0", " ", "@", "@", "\n", "-", "x", "\n">>
          [] shape.form = "nohunk" ->
               header
               \o <<"o", "l", "d", " ", "m", "o", "d", "e", " ", "1", "0", "0", "6", "4", "4", "\n">>
               \o <<"n", "e", "w", " ", "m", "o", "d", "e", " ", "1", "0", "0", "7", "5", "5", "\n">>
          [] shape.form = "text" ->
               header
               \o (IF shape.marker = "new"
                   THEN <<"n", "e", "w", " ", "f", "i", "l", "e", " ", "m", "o", "d", "e", " ", "1", "0", "0", "6", "4", "4", "\n">>
                        \o <<"-", "-", "-", " ", "/", "d", "e", "v", "/", "n", "u", "l", "l", "\n">>
                   ELSE <<"-", "-", "-", " ", "a", "/">> \o p \o <<"\n">>)
               \o <<"+", "+", "+", " ", "b", "/">> \o p \o <<"\n">>
               \o <<"@", "@", " ", "-", "1", " ", "+", "1", " ", "@", "@", "\n">>
               \o contentText(shape.lines)

RECURSIVE diffText(_, _)
diffText(shapes, k) ==
    IF k > Len(shapes) THEN << >>
    ELSE sectionText(shapes[k], k) \o diffText(shapes, k + 1)

\* The values of maxBytes: below and above the length of every section.
MaxBytesValues == {40, 1000}

CallParseUnifiedDiff(shapes, maxBytes) ==
    /\ dm.op = "none"
    /\ dm' = [op |-> "parseUnifiedDiff", shapes |-> shapes,
              input |-> diffText(shapes, 1), maxBytes |-> maxBytes,
              output |-> parseUnifiedDiff(diffText(shapes, 1), maxBytes)]
    /\ UNCHANGED watcherVars

CallParseFilesFromDiff(shapes) ==
    /\ dm.op = "none"
    /\ dm' = [op |-> "parseFilesFromDiff", shapes |-> shapes,
              input |-> diffText(shapes, 1), maxBytes |-> 0,
              output |-> parseFilesFromDiff(diffText(shapes, 1))]
    /\ UNCHANGED watcherVars

NextParse ==
    \/ \E shapes \in SectionLists, maxBytes \in MaxBytesValues :
          CallParseUnifiedDiff(shapes, maxBytes)
    \/ \E shapes \in SectionLists : CallParseFilesFromDiff(shapes)

SpecParse == Init /\ [][NextParse]_vars

(***************************************************************************)
(* Properties of the parsers.                                              *)
(***************************************************************************)
parsed == dm.op \in {"parseUnifiedDiff", "parseFilesFromDiff"}

\* The positions of the well-formed sections of the parsed text.
wellFormed == {k \in 1..Len(dm.shapes) : dm.shapes[k].form # "malformed"}

\* The number of content lines of this kind in a section.
linesOfKind(shape, kind) ==
    Cardinality({i \in 1..Len(shape.lines) : shape.lines[i].kind = kind})

\* C15: for a text of N well-formed sections parse returns exactly N
\* entries, in the order of the sections, whatever their content lines
\* hold; a malformed section removes only its own entry; the empty text
\* gives the empty sequence.
C15_EntryPerSection ==
    parsed =>
       /\ Len(dm.output) = Cardinality(wellFormed)
       /\ \A k \in wellFormed :
             dm.output[Cardinality({j \in wellFormed : j <= k})].path
                = sectionPath(k)

\* C16: a non-binary section with k added and m removed content lines
\* after its hunk marker yields additions = k and deletions = m, whatever
\* the content of the lines (empty, or starting with '+' or '-'); the
\* header lines '+++' and '---' are not counted.
C16_ContentLineCounts ==
    parsed =>
       \A k \in 1..Len(dm.shapes) :
          dm.shapes[k].form = "text" =>
             \E i \in 1..Len(dm.output) :
                /\ dm.output[i].path = sectionPath(k)
                /\ dm.output[i].additions = linesOfKind(dm.shapes[k], "added")
                /\ dm.output[i].deletions = linesOfKind(dm.shapes[k], "removed")

\* C17: a non-binary section longer than maxBytes yields an entry with
\* tooLarge, empty old and new content and the additions and deletions of
\* its content lines; a section of at most maxBytes yields an entry
\* without tooLarge.
C17_SizeGuard ==
    dm.op = "parseUnifiedDiff" =>
       \A k \in 1..Len(dm.shapes) :
          dm.shapes[k].form \in {"text", "nohunk"} =>
             \E i \in 1..Len(dm.output) :
                LET e == dm.output[i]
                    large == Len(sectionText(dm.shapes[k], k)) > dm.maxBytes
                IN  /\ e.path = sectionPath(k)
                    /\ e.tooLarge = large
                    /\ large =>
                          /\ e.oldValue = << >>
                          /\ e.newValue = << >>
                          /\ e.additions = linesOfKind(dm.shapes[k], "added")
                          /\ e.deletions = linesOfKind(dm.shapes[k], "removed")

(***************************************************************************)
(* Properties of the check of the watcher.                                 *)
(***************************************************************************)
\* C18: a check in which a gateway call fails, at any of its six steps, is
\* inconclusive: nothing is emitted and the session waits in Backoff. In
\* steps 4 and 5 only the exit code that says 'modifications present'
\* means changed; another failure of the call there does not.
C18_GatewayErrorIsInconclusive ==
    (step.op = "timeout" /\ step.gatewayError) =>
       /\ step.result = "undefined"
       /\ step.sessionId \notin watcher.emitted
       /\ pending(step.sessionId)
       /\ armed(step.sessionId)

\* C19: a non-ignored event that arrives for a session whose check has just
\* ended inconclusive (it arrived during the check, or at the start of the
\* wait in Backoff) only sets pendingRefresh: the timer of the session still
\* fires no earlier than the backoff delay that the check scheduled.
C19_EventInBackoffKeepsDelay ==
    [][(/\ step.op = "timeout"
        /\ step.result = "undefined"
        /\ step'.op = "fsEvent"
        /\ step'.sessionId = step.sessionId
        /\ step'.pathClass = "ordinary"
        /\ registered(step.sessionId))
          => /\ watcher'.watchedSessions[step.sessionId].pendingRefresh
             /\ step.sessionId \in DOMAIN watcher'.refreshDebounceTimers
             /\ watcher'.refreshDebounceTimers[step.sessionId] >= step.delay]_vars

\* C20: the gateway calls of a check run off the dispatch path: the
\* dispatch step in which the timer of a pending session fires only starts
\* the check (pendingRefresh cleared, no timer armed) and ends before the
\* gateway has answered, so that events, timers and lifecycle calls are
\* processed meanwhile; what the result brings about (the signal, the
\* failure count, the backoff timer) is the work of a later step.
C20_CheckOffDispatchPath ==
    [][(step'.op = "timeout" /\ pending(step'.sessionId))
          => /\ watcher'.emitted = {}
             /\ watcher'.errorCounts = watcher.errorCounts
             /\ step'.sessionId \notin DOMAIN watcher'.refreshDebounceTimers
             /\ ~watcher'.watchedSessions[step'.sessionId].pendingRefresh]_vars

\* C21: at most one check is in flight for a session id. A check runs to
\* its end inside the timer callback that starts it, so checks overlap only
\* if two callbacks of one id are outstanding: under every interleaving of
\* events, timer firings, startWatching and stopWatching each id has at most
\* one timer that can still fire, the one recorded for it.
C21_AtMostOneCheckInFlight ==
    \A id \in Sessions :
       /\ Cardinality(watcher.liveTimeouts[id]) <= 1
       /\ watcher.liveTimeouts[id] # {}
             => /\ armed(id)
                /\ watcher.liveTimeouts[id] = {watcher.refreshDebounceTimers[id]}

\* An event has re-armed the timer of a session that waited in Backoff:
\* the backoff timer is gone and only the debounce timer can fire.
C21_Witness ==
    /\ step.op = "fsEvent"
    /\ step.pathClass = "ordinary"
    /\ errorCount(step.sessionId) >= 2
    /\ watcher.liveTimeouts[step.sessionId] = {DEBOUNCE_MS}

\* C22: the failure streak of a session is destroyed with the session: an
\* id that is not watched has no failure count, and after startWatching the
\* count of the new session is 0, so that its first inconclusive check is
\* scheduled with BASE_BACKOFF_MS (the delay of a check is
\* BASE_BACKOFF_MS * 2^count, and events and clock ticks leave the count).
C22_StreakDestroyedWithSession ==
    /\ \A id \in Sessions : ~registered(id) => errorCount(id) = 0
    /\ (step.op = "startWatching" /\ step.result = "ok")
          => errorCount(step.sessionId) = 0

(***************************************************************************)
(* One check of the watcher against a working tree: what every gateway     *)
(* call would answer if the check issued it.                               *)
(***************************************************************************)
GatewayAnswers ==
    { Gw(a, b, c, d, e, f, g) :
         a \in {"true", "other", "throw"}, b \in {"ok", "throw"},
         c \in {"no", "yes"}, d \in {"ok", "throw"},
         e \in {"exit0", "exit1", "fail"}, f \in {"exit0", "exit1", "fail"},
         g \in {"empty", "nonempty", "throw"} }

CallCheckIfRefreshNeeded(path, gw) ==
    /\ dm.op = "none"
    /\ dm' = [op |-> "checkIfRefreshNeeded", input |-> gw,
              output |-> checkIfRefreshNeeded(path, gw)]
    /\ UNCHANGED watcherVars

NextCheck ==
    \E path \in Paths, gw \in GatewayAnswers : CallCheckIfRefreshNeeded(path, gw)

SpecCheck == Init /\ [][NextCheck]_vars

\* The six gateway calls of the check algorithm, in its order.
CheckSteps ==
    <<"inside-work-tree", "git-dir", "update-index", "diff-files",
      "diff-index", "ls-files">>

\* The first step of the algorithm that decides the check, given the
\* answers of the gateway: step 1 unless the directory is a working copy,
\* step 2 on a failure or a lock file, step 3 on a failed refresh, steps 4
\* and 5 unless the query reports no modification, else step 6.
firstDecidingStep(gw) ==
    IF gw.insideWorkTree # "true" THEN 1
    ELSE IF gw.gitDir # "ok" \/ gw.lockExists = "yes" THEN 2
    ELSE IF gw.updateIndex # "ok" THEN 3
    ELSE IF gw.diffFiles # "exit0" THEN 4
    ELSE IF gw.diffIndex # "exit0" THEN 5
    ELSE 6

\* C23: the gateway calls of a check are issued in the order of the steps 1
\* to 6 and end with the first step that decides; when step 2 finds a lock
\* file the check is inconclusive and issues no index refresh, no unstaged
\* or staged query and no untracked listing.
C23_LockFileStopsCheck ==
    dm.op = "checkIfRefreshNeeded" =>
       LET gw == dm.input
           calls == dm.output.calls
       IN  /\ calls = SubSeq(CheckSteps, 1, firstDecidingStep(gw))
           /\ (gw.insideWorkTree = "true" /\ gw.gitDir = "ok"
                  /\ gw.lockExists = "yes")
                 => /\ dm.output.value = "undefined"
                    /\ calls = <<"inside-work-tree", "git-dir">>

\* A check has found the lock file in a working tree whose index refresh
\* would have succeeded and whose unstaged query would have reported
\* modifications.
C23_Witness ==
    /\ dm.op = "checkIfRefreshNeeded"
    /\ dm.input.insideWorkTree = "true"
    /\ dm.input.gitDir = "ok"
    /\ dm.input.lockExists = "yes"
    /\ dm.input.updateIndex = "ok"
    /\ dm.input.diffFiles = "exit1"
    /\ dm.output.value = "undefined"

(***************************************************************************)
(* Further properties of getCommitHistory.                                 *)
(***************************************************************************)
\* The statistics of a commit: the lines added and deleted in its text
\* files and the number of files it touches.
RECURSIVE ownStats(_)
ownStats(files) ==
    IF Len(files) = 0 THEN ZeroStats
    ELSE LET f == Head(files)
             rest == ownStats(Tail(files))
         IN  [ additions |-> rest.additions + (IF f.binary THEN 0 ELSE f.added),
               deletions |-> rest.deletions + (IF f.binary THEN 0 ELSE f.deleted),
               filesChanged |-> rest.filesChanged + 1 ]

\* C24: when the first git log succeeds, getCommitHistory returns one record
\* for every listed commit, with the hash, the author and the date of that
\* commit and with the statistics of the stat lines of that commit, also
\* when the subject or a file path holds the delimiter '|'; no stat line
\* becomes a record.
C24_HistoryFieldsDelimiterSafe ==
    (dm.op = "getCommitHistory" /\ ~dm.input.logError.fails) =>
       LET expected == listed(dm.input, dm.limit)
           commits == dm.output.commits
       IN  /\ Len(commits) = Len(expected)
           /\ \A k \in 1..Len(commits) :
                 /\ commits[k].hash = expected[k].hash
                 /\ commits[k].author = expected[k].author
                 /\ commits[k].date = expected[k].date
                 /\ commits[k].stats = ownStats(expected[k].files)

(***************************************************************************)
(* Further properties of the capture of the working tree.                  *)
(***************************************************************************)
\* An untracked file that cannot be read as text: its read is denied or it
\* is binary.
unreadable(f) == ~f.readable \/ f.binary

RECURSIVE readableFiles(_)
readableFiles(files) ==
    IF Len(files) = 0 THEN << >>
    ELSE (IF unreadable(Head(files)) THEN << >> ELSE <<Head(files)>>)
         \o readableFiles(Tail(files))

\* The working tree without its unreadable untracked files.
readableTree(tree) == [tree EXCEPT !.untracked = readableFiles(@)]

\* The header of the section synthesized for an untracked file.
sectionHeader(name) ==
    <<"d", "i", "f", "f", " ", "-", "-", "g", "i", "t", " ", "a", "/">>
    \o name \o <<" ", "b", "/">> \o name \o <<"\n">>

\* C25: when no command fails, the unreadable untracked files (read denied,
\* binary) have no section in the text of captureWorkingDirectoryDiff and
\* add nothing to additions and deletions: text, additions and deletions
\* are those of the same working tree without these files; each of them is
\* listed in changedFiles and counted in filesChanged.
C25_UnreadableUntrackedSkipped ==
    (dm.op = "captureWorkingDirectoryDiff" /\ dm.input.fails = {}) =>
       LET tree == dm.input
           skipped == {i \in 1..Len(tree.untracked) :
                          unreadable(tree.untracked[i])}
           rest == captureWorkingDirectoryDiff(readableTree(tree))
       IN  /\ \A i \in skipped :
                 /\ ~includes(dm.output.diff,
                              sectionHeader(tree.untracked[i].name))
                 /\ \E k \in 1..Len(dm.output.changedFiles) :
                       dm.output.changedFiles[k] = tree.untracked[i].name
           /\ dm.output.diff = rest.diff
           /\ dm.output.stats.additions = rest.stats.additions
           /\ dm.output.stats.deletions = rest.stats.deletions
           /\ dm.output.stats.filesChanged =
                 rest.stats.filesChanged + Cardinality(skipped)

\* C26: every entry a parser returns has the new path of its section as
\* path when that is not empty and the old path otherwise, and no entry has
\* an empty path (stated for the texts that give one entry for each
\* well-formed section).
C26_CanonicalPath ==
    parsed =>
       /\ \A i \in 1..Len(dm.output) : dm.output[i].path # << >>
       /\ Len(dm.output) = Cardinality(wellFormed)
             => \A k \in wellFormed :
                   LET new == sectionNewPath(dm.shapes[k], k)
                       old == sectionOldPath(dm.shapes[k], k)
                       e == dm.output[Cardinality({j \in wellFormed : j <= k})]
                   IN  e.path = IF new # << >> THEN new ELSE old

(***************************************************************************)
(* Further properties of the watcher.                                      *)
(***************************************************************************)
\* C27: between the operations of the watcher a timer is armed for a
\* session id exactly when id is registered with pendingRefresh true, so
\* that getStats().sessionsNeedingRefresh is the number of armed timers.
C27_TimerIffPending ==
    /\ \A id \in Sessions : armed(id) <=> pending(id)
    /\ getStats(watcher).sessionsNeedingRefresh
          = Cardinality(DOMAIN watcher.refreshDebounceTimers)

\* A check of one session has ended definitive, leaving it Idle, while
\* another session waits in Backoff with its timer.
C27_Witness ==
    /\ step.op = "timeout"
    /\ step.result \in {"true", "false"}
    /\ registered(step.sessionId)
    /\ ~armed(step.sessionId)
    /\ \E id \in Sessions \ {step.sessionId} :
          armed(id) /\ pending(id) /\ errorCount(id) >= 1
    /\ getStats(watcher).sessionsNeedingRefresh = 1

(***************************************************************************)
(* Liveness of the watcher. The event loop of the process keeps running:   *)
(* the clock advances and a timer that is due fires (setTimeout).          *)
(***************************************************************************)
\* The sessions of one instance do not share state but the registry: the
\* operations are those of Next, for one session.
LiveSessions == {"s1"}

NextLive ==
    \/ \E id \in LiveSessions, path \in Paths, watchOk \in BOOLEAN :
          CallStartWatching(id, path, watchOk)
    \/ \E id \in LiveSessions : CallStopWatching(id)
    \/ CallStopAll
    \/ \E id \in LiveSessions, filename \in FileNames : FsEvent(id, filename)
    \/ \E id \in LiveSessions, gw \in GatewayOutcomes : TimerFires(id, gw)
    \/ Tick

SpecLive ==
    /\ Init
    /\ [][NextLive]_vars
    /\ WF_vars(Tick)
    /\ \A id \in LiveSessions :
          WF_vars(\E gw \in GatewayOutcomes : TimerFires(id, gw))

\* The step that led to the current state disturbs the wait of id: a
\* non-ignored event for id, or an inconclusive check of id.
eventFor(id) ==
    step.op = "fsEvent" /\ step.sessionId = id /\ step.pathClass = "ordinary"

inconclusiveCheckOf(id) ==
    step.op = "timeout" /\ step.sessionId = id /\ step.result = "undefined"

\* id has come to rest: its session has been stopped (by stopWatching,
\* stopAll or the startWatching that replaces it), or a definitive check
\* has left it Idle (not pending, no timer, no failure count), with
\* needs-refresh emitted exactly when the result was 'changed'.
atRest(id) ==
    \/ ~registered(id)
    \/ id \in step.stopped
    \/ /\ step.op = "timeout"
       /\ step.sessionId = id
       /\ step.result \in {"true", "false"}
       /\ ~pending(id)
       /\ ~armed(id)
       /\ errorCount(id) = 0
       /\ (step.result = "true") <=> (id \in watcher.emitted)

DefaultMaxBytes == 5 * 1024 * 1024

RECURSIVE entryAdditions(_)
entryAdditions(entries) ==
    IF Len(entries) = 0 THEN 0
    ELSE Head(entries).additions + entryAdditions(Tail(entries))

\* C29: the additions that the untracked files contribute to the stats of
\* captureWorkingDirectoryDiff are the '+' lines of the sections synthesized
\* for them, also for an empty file and for a file that ends with a line
\* end: the entries that parseUnifiedDiff returns for the raw text have
\* additions that sum to the untracked part of stats.additions.
C29_UntrackedAdditionsMatchSections ==
    (dm.op = "captureWorkingDirectoryDiff" /\ dm.input.fails = {}) =>
       LET entries == parseUnifiedDiff(dm.output.diff, DefaultMaxBytes)
       IN  /\ Len(entries) =
                 Cardinality({i \in 1..Len(dm.input.untracked) :
                                 dm.input.untracked[i].readable})
           /\ entryAdditions(entries) =
                 dm.output.stats.additions - dm.input.tracked.additions

\* C30: when fs.watch fails, startWatching(id, path) returns with no
\* session registered under id: getStats().totalWatched does not count id,
\* no timer is armed for id, and the handle of a session that was watched
\* under id has been closed and its timer cancelled.
C30_FailedStartLeavesNoSession ==
    (step.op = "startWatching" /\ step.result = "throw") =>
       LET id == step.sessionId
       IN  /\ ~registered(id)
           /\ getStats(watcher).totalWatched =
                 Cardinality(DOMAIN watcher.watchedSessions \ {id})
           /\ ~armed(id)
           /\ watcher.liveTimeouts[id] = {}
           /\ watcher.openWatchers[id] = 0

\* fs.watch has failed in the startWatching of a session that was watched
\* and had a timer armed, while the other session is watched.
C30_Witness ==
    /\ step.op = "startWatching"
    /\ step.result = "throw"
    /\ step.stopped = {step.sessionId}
    /\ step.disarmed = {step.sessionId}
    /\ getStats(watcher).totalWatched = 1

====
